---- MODULE Spec2Model ----
(***************************************************************************)
(* ShipNote: commit normalisation and changelog synthesis pipeline.        *)
(*                                                                         *)
(* Python strings are modelled as sequences of one-character strings, so   *)
(* that strip/split/join are computed as Python computes them; a literal   *)
(* of the program that is only ever concatenated (an error message, a      *)
(* fragment of the prompt) is kept as one element.  Python's None and a    *)
(* missing dictionary key are the two sentinels None and Absent            *)
(* (one-element sequences whose element is not a character of any input). *)
(* JSON objects are records; a request or a response is a record too.      *)
(***************************************************************************)
EXTENDS Integers, Sequences, FiniteSets, TLC

VARIABLES pc, req, calls, records, resp, cli, temp_dir, printed, markdown

vars == <<pc, req, calls, records, resp, cli, temp_dir, printed, markdown>>

\* The state of the server and the state of a run of the command-line client.
serverVars == <<pc, req, records, resp>>
clientVars == <<cli, temp_dir, printed, markdown>>

(***************************************************************************)
(* Bounds of the explored inputs.                                          *)
(***************************************************************************)
MaxTextLen == 4
MaxCommits == 2

(***************************************************************************)
(* Python values.                                                          *)
(***************************************************************************)
None == <<"<None>">>
Absent == <<"<Absent>">>

\* bool(x) for a string-valued slot: None and '' are falsy.
Truthy(x) == x # None /\ x # Absent /\ x # <<>>

\* dict.get(key, default) on a slot that may be missing.
Get(slot, default) == IF slot = Absent THEN default ELSE slot

\* x or y
OrElse(x, y) == IF Truthy(x) THEN x ELSE y

\* The characters str.strip() removes among those the inputs are built from.
Whitespace == {" ", "\t", "\n", "\r"}

RECURSIVE LStrip(_)
LStrip(s) ==
    IF s = <<>> THEN s
    ELSE IF Head(s) \in Whitespace THEN LStrip(Tail(s)) ELSE s

RECURSIVE RStrip(_)
RStrip(s) ==
    IF s = <<>> THEN s
    ELSE IF s[Len(s)] \in Whitespace THEN RStrip(SubSeq(s, 1, Len(s) - 1)) ELSE s

\* str.strip()
Strip(s) == RStrip(LStrip(s))

\* str.find(c) for a one-character c, 1-based; 0 when c does not occur.
RECURSIVE FindFrom(_, _, _)
FindFrom(s, c, i) ==
    IF i > Len(s) THEN 0
    ELSE IF s[i] = c THEN i ELSE FindFrom(s, c, i + 1)

Find(s, c) == FindFrom(s, c, 1)

\* str.split(c): every occurrence of c separates two fields.
RECURSIVE Split(_, _)
Split(s, c) ==
    LET i == Find(s, c)
    IN  IF i = 0 THEN <<s>>
        ELSE <<SubSeq(s, 1, i - 1)>> \o Split(SubSeq(s, i + 1, Len(s)), c)

\* str.split(c, 1): at most one split, at the first occurrence of c.
SplitOnce(s, c) ==
    LET i == Find(s, c)
    IN  IF i = 0 THEN <<s>>
        ELSE <<SubSeq(s, 1, i - 1), SubSeq(s, i + 1, Len(s))>>

\* sep.join(parts)
RECURSIVE Join(_, _)
Join(parts, sep) ==
    IF parts = <<>> THEN <<>>
    ELSE IF Len(parts) = 1 THEN parts[1]
    ELSE parts[1] \o sep \o Join(Tail(parts), sep)

\* str(n) for a natural number n.
Digit(d) ==
    CASE d = 0 -> "0" [] d = 1 -> "1" [] d = 2 -> "2" [] d = 3 -> "3"
      [] d = 4 -> "4" [] d = 5 -> "5" [] d = 6 -> "6" [] d = 7 -> "7"
      [] d = 8 -> "8" [] d = 9 -> "9"

RECURSIVE Str(_)
Str(n) == IF n < 10 THEN <<Digit(n)>> ELSE Str(n \div 10) \o <<Digit(n % 10)>>

(***************************************************************************)
(* Pasted-text adapter: the parsing loop of /api/generate-from-text.       *)
(***************************************************************************)
\* ParseLine numbering the lines from 1, as enumerate(lines, 1) would.
ParseLine_OneBased(idx, line) ==
    LET parts == SplitOnce(line, " ")
    IN  IF Len(parts) >= 2
        THEN [hash |-> parts[1], message |-> parts[2],
              author |-> <<"Unknown">>, date |-> <<>>]
        ELSE [hash |-> <<"c", "o", "m", "m", "i", "t", "-">> \o Str(idx + 1),
              message |-> line,
              author |-> <<"Unknown">>, date |-> <<>>]

\* One iteration of the loop body for a line that is not skipped; idx is the
\* 0-based index enumerate() gives the line.
ParseLine(idx, line) ==
    LET parts == SplitOnce(line, " ")
    IN  IF Len(parts) >= 2
        THEN [hash |-> parts[1], message |-> parts[2],
              author |-> <<"Unknown">>, date |-> <<>>]
        ELSE [hash |-> <<"c", "o", "m", "m", "i", "t", "-">> \o Str(idx),
              message |-> line,
              author |-> <<"Unknown">>, date |-> <<>>]

\* ParseLines without the `if not line: continue` of the loop.
RECURSIVE ParseLines_KeepBlank(_, _)
ParseLines_KeepBlank(lines, idx) ==
    IF lines = <<>> THEN <<>>
    ELSE <<ParseLine(idx, Strip(Head(lines)))>>
             \o ParseLines_KeepBlank(Tail(lines), idx + 1)

\* The loop over enumerate(lines), from 0-based index idx on.
RECURSIVE ParseLines(_, _)
ParseLines(lines, idx) ==
    IF lines = <<>> THEN <<>>
    ELSE LET line == Strip(Head(lines))
         IN  IF line = <<>>
             THEN ParseLines(Tail(lines), idx + 1)
             ELSE <<ParseLine(idx, line)>> \o ParseLines(Tail(lines), idx + 1)

\* commits, as built from git_log_text.
PastedCommits(git_log_text) == ParseLines(Split(Strip(git_log_text), "\n"), 0)

(***************************************************************************)
(* AIService (services/ai_service.py).  The generation backend is the      *)
(* environment: one outcome of client.messages.create per call.            *)
(***************************************************************************)
\* isinstance(e, cls) for the exceptions the call can raise: in the anthropic
\* package APIConnectionError and RateLimitError derive from APIError.
IsInstance(kind, cls) ==
    \/ cls = "Exception"
    \/ kind = cls
    \/ cls = "APIError" /\ kind \in {"APIConnectionError", "RateLimitError"}

\* generate_changelog(git_log) when messages.create ends as `outcome`.
generate_changelog(git_log, outcome) ==
    IF outcome.kind = "ok"
    THEN [success |-> TRUE, changelog |-> outcome.text,
          error |-> Absent,
          tokens_used |-> outcome.input_tokens + outcome.output_tokens]
    ELSE IF IsInstance(outcome.kind, "APIError")
    THEN [success |-> FALSE, changelog |-> None,
          error |-> <<"API Error: ">> \o outcome.text, tokens_used |-> 0]
    ELSE IF IsInstance(outcome.kind, "APIConnectionError")
    THEN [success |-> FALSE, changelog |-> None,
          error |-> <<"Connection Error: Unable to reach Claude API. Check your internet connection.">>,
          tokens_used |-> 0]
    ELSE IF IsInstance(outcome.kind, "RateLimitError")
    THEN [success |-> FALSE, changelog |-> None,
          error |-> <<"Rate Limit Error: Too many requests. Please try again later.">>,
          tokens_used |-> 0]
    ELSE [success |-> FALSE, changelog |-> None,
          error |-> <<"Unexpected error: ">> \o outcome.text, tokens_used |-> 0]

\* What an f-string prints for a value.
Fmt(x) == IF x = None THEN <<"None">> ELSE x

\* One line of commit_text.
CommitLine(commit) ==
    <<"- ">> \o Fmt(commit.message) \o <<" - by ">>
        \o Fmt(Get(commit.author, <<"Unknown">>))
        \o <<" (">> \o Fmt(commit.date) \o <<")">>

\* The first key whose lookup commit[key] raises KeyError, or Absent.
RECURSIVE MissingKey(_)
MissingKey(commits) ==
    IF commits = <<>> THEN Absent
    ELSE IF Head(commits).message = Absent THEN <<"'message'">>
    ELSE IF Head(commits).date = Absent THEN <<"'date'">>
    ELSE MissingKey(Tail(commits))

\* CommitLines building the list back to front.
RECURSIVE CommitLines_Reversed(_)
CommitLines_Reversed(commits) ==
    IF commits = <<>> THEN <<>>
    ELSE CommitLines_Reversed(Tail(commits)) \o <<CommitLine(Head(commits))>>

RECURSIVE CommitLines(_)
CommitLines(commits) ==
    IF commits = <<>> THEN <<>>
    ELSE <<CommitLine(Head(commits))>> \o CommitLines(Tail(commits))

\* The user message built from the commits and the range.
GitLog(commits, from_ref, to_ref) ==
    <<"Commits from ">> \o Fmt(OrElse(from_ref, <<"start">>)) \o <<" to ">>
        \o Fmt(to_ref) \o <<":", "\n", "\n">>
        \o Join(CommitLines(commits), <<"\n">>)

\* One entry of the log of calls to external collaborators: the service, what
\* it was called with and how the call ended.
Call(svc, arg, outcome) == [svc |-> svc, arg |-> arg, outcome |-> outcome]

\* generate_release_notes calling the backend a second time after a failure.
generate_release_notes_Retry(commits, from_ref, to_ref, outcome) ==
    IF MissingKey(commits) # Absent
    THEN [raised |-> TRUE, error |-> MissingKey(commits), value |-> None,
          calls |-> <<>>]
    ELSE LET git_log == GitLog(commits, from_ref, to_ref)
             result  == generate_changelog(git_log, outcome)
         IN  [raised |-> FALSE, error |-> Absent,
              value  |-> IF result.success THEN result.changelog ELSE <<>>,
              calls  |-> IF result.success
                         THEN <<Call("ai", git_log, outcome)>>
                         ELSE <<Call("ai", git_log, outcome),
                                Call("ai", git_log, outcome)>>]

\* generate_release_notes(commits, from_ref, to_ref): the value returned or
\* the exception raised, and the backend calls made.
generate_release_notes(commits, from_ref, to_ref, outcome) ==
    IF MissingKey(commits) # Absent
    THEN [raised |-> TRUE, error |-> MissingKey(commits), value |-> None,
          calls |-> <<>>]
    ELSE LET git_log == GitLog(commits, from_ref, to_ref)
             result  == generate_changelog(git_log, outcome)
         IN  [raised |-> FALSE, error |-> Absent,
              value  |-> IF result.success THEN result.changelog ELSE <<>>,
              calls  |-> <<Call("ai", git_log, outcome)>>]

(***************************************************************************)
(* GitService (services/git_service.py).  The repository is the            *)
(* environment: Repo()/iter_commits either raise or deliver commits.       *)
(***************************************************************************)
\* s[:n]
Prefix(s, n) == SubSeq(s, 1, IF Len(s) < n THEN Len(s) ELSE n)

\* datetime.fromtimestamp(t).strftime('%b %d, %I:%M %p'), kept symbolic.
Strftime(t) == <<"strftime:">> \o Str(t)

GitRecord(commit) ==
    [hash |-> Prefix(commit.hexsha, 7),
     message |-> Strip(commit.message),
     author |-> commit.author_name,
     date |-> Strftime(commit.committed_date),
     files_changed |-> commit.files]

RECURSIVE GitRecords(_)
GitRecords(raw) ==
    IF raw = <<>> THEN <<>> ELSE <<GitRecord(Head(raw))>> \o GitRecords(Tail(raw))

\* get_commits(repo_path, from_ref, to_ref, limit)
get_commits(repo_path, from_ref, to_ref, limit, outcome) ==
    LET commit_range == IF Truthy(from_ref)
                        THEN from_ref \o <<"..">> \o Fmt(to_ref)
                        ELSE to_ref
    IN  IF outcome.kind = "ok"
        THEN [raised |-> FALSE, error |-> Absent,
              value |-> GitRecords(Prefix(outcome.commits, limit)),
              calls |-> <<Call("git", commit_range, outcome)>>]
        ELSE [raised |-> TRUE,
              error |-> <<"Failed to fetch commits from ">> \o Fmt(repo_path)
                            \o <<": ">> \o outcome.text,
              value |-> <<>>,
              calls |-> <<Call("git", commit_range, outcome)>>]

(***************************************************************************)
(* GitHubService (services/github_service.py).  The GitHub REST API is the *)
(* environment: one outcome of requests.get per call.                      *)
(***************************************************************************)
\* Min returning the larger argument.
Min_Larger(a, b) == IF a < b THEN b ELSE a

Min(a, b) == IF a < b THEN a ELSE b

PerPageCap == 100

AttributeErrorText == <<"'NoneType' object has no attribute 'get'">>

\* AuthorName with the committer tried before the commit author.
AuthorName_CommitterFirst(commit) ==
    LET commit_obj == commit.commit
    IN  IF ~commit.author.null /\ Truthy(commit.author.login)
        THEN commit.author.login
        ELSE IF ~commit_obj.committer.null /\ Truthy(commit_obj.committer.name)
        THEN commit_obj.committer.name
        ELSE IF commit_obj.author.state = "dict" /\ Truthy(commit_obj.author.name)
        THEN commit_obj.author.name
        ELSE <<"Unknown">>

\* author_name of one element of commits_data.  commit.author is the GitHub
\* user ([null, login]); commit.commit.author is the git author ([state, name,
\* date], state being "absent", "null" or "dict"); commit.commit.committer is
\* the git committer ([null, name]).
AuthorName(commit) ==
    LET commit_obj == commit.commit
    IN  IF ~commit.author.null /\ Truthy(commit.author.login)
        THEN commit.author.login
        ELSE IF commit_obj.author.state = "dict" /\ Truthy(commit_obj.author.name)
        THEN commit_obj.author.name
        ELSE IF ~commit_obj.committer.null /\ Truthy(commit_obj.committer.name)
        THEN commit_obj.committer.name
        ELSE <<"Unknown">>

\* commit_obj.get("author", {}).get("date", "") raises on a null author.
DateRaises(commit) == commit.commit.author.state = "null"

GitHubRecord(commit) ==
    LET commit_obj == commit.commit
    IN  [hash |-> Prefix(commit.sha, 7),
         message |-> Get(commit_obj.message, <<>>),
         author |-> AuthorName(commit),
         date |-> IF commit_obj.author.state = "absent" THEN <<>>
                  ELSE Get(commit_obj.author.date, <<>>),
         url |-> Get(commit.html_url, <<>>)]

RECURSIVE GitHubRecords(_)
GitHubRecords(commits_data) ==
    IF commits_data = <<>> THEN <<>>
    ELSE <<GitHubRecord(Head(commits_data))>> \o GitHubRecords(Tail(commits_data))

\* fetch_repo_commits without the branch for status 403.
fetch_repo_commits_ForbiddenAsGeneric(access_token, owner, repo, since, until, limit, outcome) ==
    LET params == [per_page |-> Min(limit, PerPageCap),
                   since |-> IF Truthy(since) THEN since ELSE Absent,
                   until |-> IF Truthy(until) THEN until ELSE Absent]
        request == Call("github",
                        [url |-> <<"/repos/">> \o owner \o <<"/">> \o repo \o <<"/commits">>,
                         params |-> params],
                        outcome)
        result ==
            IF outcome.kind = "ok"
            THEN IF \E i \in 1..Len(outcome.commits) : DateRaises(outcome.commits[i])
                 THEN [success |-> FALSE, error |-> AttributeErrorText]
                 ELSE [success |-> TRUE,
                       commits |-> GitHubRecords(outcome.commits),
                       count |-> Len(outcome.commits)]
            ELSE IF outcome.kind = "HTTPError"
            THEN IF outcome.status = 404
                 THEN [success |-> FALSE,
                       error |-> <<"Repository not found or you don't have access">>]
                 ELSE [success |-> FALSE,
                       error |-> <<"GitHub API error: ">> \o outcome.text]
            ELSE [success |-> FALSE, error |-> outcome.text]
    IN  [result |-> result, calls |-> <<request>>]

\* fetch_repo_commits(access_token, owner, repo, since, until, limit): the
\* dictionary returned and the request made.
fetch_repo_commits(access_token, owner, repo, since, until, limit, outcome) ==
    LET params == [per_page |-> Min(limit, PerPageCap),
                   since |-> IF Truthy(since) THEN since ELSE Absent,
                   until |-> IF Truthy(until) THEN until ELSE Absent]
        request == Call("github",
                        [url |-> <<"/repos/">> \o owner \o <<"/">> \o repo \o <<"/commits">>,
                         params |-> params],
                        outcome)
        result ==
            IF outcome.kind = "ok"
            THEN IF \E i \in 1..Len(outcome.commits) : DateRaises(outcome.commits[i])
                 THEN [success |-> FALSE, error |-> AttributeErrorText]
                 ELSE [success |-> TRUE,
                       commits |-> GitHubRecords(outcome.commits),
                       count |-> Len(outcome.commits)]
            ELSE IF outcome.kind = "HTTPError"
            THEN IF outcome.status = 404
                 THEN [success |-> FALSE,
                       error |-> <<"Repository not found or you don't have access">>]
                 ELSE IF outcome.status = 403
                 THEN [success |-> FALSE,
                       error |-> <<"Access forbidden. Check your permissions.">>]
                 ELSE [success |-> FALSE,
                       error |-> <<"GitHub API error: ">> \o outcome.text]
            ELSE [success |-> FALSE, error |-> outcome.text]
    IN  [result |-> result, calls |-> <<request>>]

\* exchange_code_for_token(code): the dictionary returned and the request
\* made to the OAuth endpoint.
exchange_code_for_token(code, outcome) ==
    LET request == Call("github oauth",
                        [url |-> <<"https://github.com/login/oauth/access_token">>,
                         code |-> code],
                        outcome)
        result ==
            IF outcome.kind = "ok"
            THEN IF outcome.json.access_token # Absent
                 THEN [success |-> TRUE,
                       access_token |-> outcome.json.access_token,
                       token_type |-> Get(outcome.json.token_type, <<"bearer">>)]
                 ELSE [success |-> FALSE,
                       error |-> Get(outcome.json.error_description,
                                     <<"Failed to get access token">>)]
            ELSE [success |-> FALSE, error |-> outcome.text]
    IN  [result |-> result, calls |-> <<request>>]

\* get_user_info(access_token)
get_user_info(access_token, outcome) ==
    LET request == Call("github user",
                        [url |-> <<"/user">>, token |-> access_token], outcome)
        result ==
            IF outcome.kind = "ok"
            THEN [success |-> TRUE,
                  username |-> Get(outcome.json.login, None),
                  name |-> Get(outcome.json.name, None),
                  avatar_url |-> Get(outcome.json.avatar_url, None),
                  email |-> Get(outcome.json.email, None)]
            ELSE [success |-> FALSE, error |-> outcome.text]
    IN  [result |-> result, calls |-> <<request>>]

\* The first key whose lookup repo[key] raises KeyError, or Absent.  Of the
\* keys read with repo[key] the model keeps id, name and clone_url, and of
\* those read with repo.get the description.
RECURSIVE MissingRepoKey(_)
MissingRepoKey(repos) ==
    IF repos = <<>> THEN Absent
    ELSE IF Head(repos).id = Absent THEN <<"'id'">>
    ELSE IF Head(repos).name = Absent THEN <<"'name'">>
    ELSE IF Head(repos).clone_url = Absent THEN <<"'clone_url'">>
    ELSE MissingRepoKey(Tail(repos))

\* get_user_repositories(access_token), per_page left at its default.
get_user_repositories(access_token, outcome) ==
    LET request == Call("github repos",
                        [url |-> <<"/user/repos">>, token |-> access_token,
                         params |-> [per_page |-> 30, sort |-> <<"updated">>]],
                        outcome)
        result ==
            IF outcome.kind = "ok"
            THEN IF MissingRepoKey(outcome.json) # Absent
                 THEN [success |-> FALSE, error |-> MissingRepoKey(outcome.json)]
                 ELSE [success |-> TRUE,
                       repositories |->
                           [k \in 1..Len(outcome.json) |->
                               [id |-> outcome.json[k].id,
                                name |-> outcome.json[k].name,
                                description |-> Get(outcome.json[k].description, <<>>),
                                clone_url |-> outcome.json[k].clone_url]]]
            ELSE [success |-> FALSE, error |-> outcome.text]
    IN  [result |-> result, calls |-> <<request>>]

\* str.rstrip('/')
RECURSIVE RStripSlash(_)
RStripSlash(s) ==
    IF s = <<>> THEN s
    ELSE IF s[Len(s)] = "/" THEN RStripSlash(SubSeq(s, 1, Len(s) - 1)) ELSE s

\* s.startswith(pat)
StartsWith(s, pat) == Len(s) >= Len(pat) /\ SubSeq(s, 1, Len(pat)) = pat

\* pat in s
Contains(s, pat) ==
    \E i \in 1..(Len(s) - Len(pat) + 1) : SubSeq(s, i, i + Len(pat) - 1) = pat

\* s.replace(pat, ''): occurrences are removed left to right, not rescanned.
RECURSIVE Remove(_, _)
Remove(s, pat) ==
    IF s = <<>> THEN s
    ELSE IF StartsWith(s, pat) THEN Remove(SubSeq(s, Len(pat) + 1, Len(s)), pat)
    ELSE <<Head(s)>> \o Remove(Tail(s), pat)

\* s.split(pat)[-1]: what follows the last field separator found scanning
\* left to right.
RECURSIVE AfterLast(_, _)
AfterLast(s, pat) ==
    IF ~Contains(s, pat) THEN s
    ELSE LET i == CHOOSE k \in 1..Len(s) :
                      /\ SubSeq(s, k, k + Len(pat) - 1) = pat
                      /\ \A j \in 1..(k - 1) : SubSeq(s, j, j + Len(pat) - 1) # pat
         IN  AfterLast(SubSeq(s, i + Len(pat), Len(s)), pat)

GithubCom == <<"g", "i", "t", "h", "u", "b", ".", "c", "o", "m">>
DotGit == <<".", "g", "i", "t">>

\* GitHubService.parse_github_url(url): [owner, repo], or the record with
\* ok = FALSE for None.
NoParse == [ok |-> FALSE, owner |-> None, repo |-> None]

github_parse_url(url0) ==
    LET url == Remove(RStripSlash(url0), DotGit)
    IN  IF ~Contains(url, GithubCom) THEN NoParse
        ELSE IF Contains(url, GithubCom \o <<"/">>) \/ Contains(url, GithubCom \o <<":">>)
        THEN LET parts == IF Contains(url, GithubCom \o <<"/">>)
                          THEN Split(AfterLast(url, GithubCom \o <<"/">>), "/")
                          ELSE Split(AfterLast(url, GithubCom \o <<":">>), "/")
             IN  IF Len(parts) >= 2
                 THEN [ok |-> TRUE, owner |-> parts[1], repo |-> parts[2]]
                 ELSE NoParse
        ELSE NoParse

(***************************************************************************)
(* Endpoint handlers (app.py).  Each returns [status, body, calls]: the    *)
(* HTTP status, the JSON payload and the collaborator calls it made.       *)
(***************************************************************************)
DefaultLimit == 50
DefaultGitHubLimit == 100

\* local is the handler's local list of Commit Records when it returns.
Reply(status, body, made, local) ==
    [status |-> status, body |-> body, calls |-> made, commits |-> local]

Failure(message) == [success |-> FALSE, error |-> message]

\* The `except Exception as e` clause of every handler.
Caught(message, made, local) == Reply(500, Failure(message), made, local)

\* data.get('commits', [])
CommitsOf(data) == IF data.commits.present THEN data.commits.value ELSE <<>>

\* data.get('limit', default)
LimitOf(data, default) == IF data.limit.present THEN data.limit.value ELSE default

\* generate_notes without the `if not commits` validation.
generate_notes_NoEmptyCheck(data, ai) ==
    IF data.null THEN Caught(AttributeErrorText, <<>>, <<>>)
    ELSE LET commits  == CommitsOf(data)
             from_ref == Get(data.from, None)
             to_ref   == Get(data.to, <<"HEAD">>)
             notes    == generate_release_notes(commits, from_ref, to_ref, ai)
         IN  IF notes.raised THEN Caught(notes.error, notes.calls, commits)
             ELSE Reply(200,
                        [success |-> TRUE, notes |-> notes.value,
                         commit_count |-> Len(commits)],
                        notes.calls, commits)

\* POST /api/generate-notes
generate_notes(data, ai) ==
    IF data.null THEN Caught(AttributeErrorText, <<>>, <<>>)
    ELSE LET commits  == CommitsOf(data)
             from_ref == Get(data.from, None)
             to_ref   == Get(data.to, <<"HEAD">>)
         IN  IF Len(commits) = 0
             THEN Reply(400, Failure(<<"No commits provided">>), <<>>, commits)
             ELSE LET notes == generate_release_notes(commits, from_ref, to_ref, ai)
                  IN  IF notes.raised THEN Caught(notes.error, notes.calls, commits)
                      ELSE Reply(200,
                                 [success |-> TRUE, notes |-> notes.value,
                                  commit_count |-> Len(commits)],
                                 notes.calls, commits)

\* POST /api/fetch-commits
fetch_commits(data, git) ==
    IF data.null THEN Caught(AttributeErrorText, <<>>, <<>>)
    ELSE LET repo_path == Get(data.repo_path, None)
             from_ref  == Get(data.from, None)
             to_ref    == Get(data.to, <<"HEAD">>)
         IN  IF ~Truthy(repo_path)
             THEN Reply(400, Failure(<<"Repository path is required">>), <<>>, <<>>)
             ELSE LET fetched == get_commits(repo_path, from_ref, to_ref, DefaultLimit, git)
                  IN  IF fetched.raised
                      THEN Caught(fetched.error, fetched.calls, <<>>)
                      ELSE Reply(200,
                                 [success |-> TRUE, commits |-> fetched.value,
                                  count |-> Len(fetched.value)],
                                 fetched.calls, fetched.value)

\* POST /api/generate-from-repo
generate_from_repo(data, git, ai) ==
    IF data.null THEN Caught(AttributeErrorText, <<>>, <<>>)
    ELSE LET repo_path == Get(data.repo_path, None)
             from_ref  == Get(data.from, None)
             to_ref    == Get(data.to, <<"HEAD">>)
             limit     == LimitOf(data, DefaultLimit)
         IN  IF ~Truthy(repo_path)
             THEN Reply(400, Failure(<<"Repository path is required">>), <<>>, <<>>)
             ELSE LET fetched == get_commits(repo_path, from_ref, to_ref, limit, git)
                      commits == fetched.value
                  IN  IF fetched.raised
                      THEN Caught(fetched.error, fetched.calls, <<>>)
                      ELSE IF Len(commits) = 0
                      THEN Reply(400,
                                 Failure(<<"No commits found in the specified range">>),
                                 fetched.calls, commits)
                      ELSE LET notes == generate_release_notes(commits, from_ref, to_ref, ai)
                           IN  IF notes.raised
                               THEN Caught(notes.error, fetched.calls \o notes.calls, commits)
                               ELSE Reply(200,
                                          [success |-> TRUE, commits |-> commits,
                                           notes |-> notes.value,
                                           commit_count |-> Len(commits)],
                                          fetched.calls \o notes.calls, commits)

\* generate_from_text without the `if not git_log_text.strip()` validation.
generate_from_text_NoBlankCheck(data, ai) ==
    IF data.null THEN Caught(AttributeErrorText, <<>>, <<>>)
    ELSE LET git_log_text == Get(data.git_log_text, <<>>)
         IN  IF git_log_text = None
             THEN Caught(<<"'NoneType' object has no attribute 'strip'">>, <<>>, <<>>)
             ELSE LET commits == PastedCommits(git_log_text)
                  IN  IF Len(commits) = 0
                      THEN Reply(400,
                                 Failure(<<"Could not parse any commits from the provided text">>),
                                 <<>>, commits)
                      ELSE LET notes == generate_release_notes(commits, None, <<"HEAD">>, ai)
                           IN  IF notes.raised
                               THEN Caught(notes.error, notes.calls, commits)
                               ELSE Reply(200,
                                          [success |-> TRUE, notes |-> notes.value,
                                           commit_count |-> Len(commits)],
                                          notes.calls, commits)

\* POST /api/generate-from-text
generate_from_text(data, ai) ==
    IF data.null THEN Caught(AttributeErrorText, <<>>, <<>>)
    ELSE LET git_log_text == Get(data.git_log_text, <<>>)
         IN  IF git_log_text = None
             THEN Caught(<<"'NoneType' object has no attribute 'strip'">>, <<>>, <<>>)
             ELSE IF Strip(git_log_text) = <<>>
             THEN Reply(400, Failure(<<"No git log text provided">>), <<>>, <<>>)
             ELSE LET commits == PastedCommits(git_log_text)
                  IN  IF Len(commits) = 0
                      THEN Reply(400,
                                 Failure(<<"Could not parse any commits from the provided text">>),
                                 <<>>, commits)
                      ELSE LET notes == generate_release_notes(commits, None, <<"HEAD">>, ai)
                           IN  IF notes.raised
                               THEN Caught(notes.error, notes.calls, commits)
                               ELSE Reply(200,
                                          [success |-> TRUE, notes |-> notes.value,
                                           commit_count |-> Len(commits)],
                                          notes.calls, commits)

\* The commits a result of fetch_repo_commits carries, if any.
FetchedCommits(result) == IF result.success THEN result.commits ELSE <<>>

\* POST /api/github/commits
fetch_github_commits(data, gh) ==
    IF data.null THEN Caught(AttributeErrorText, <<>>, <<>>)
    ELSE LET access_token == Get(data.access_token, None)
             owner == Get(data.owner, None)
             repo  == Get(data.repo, None)
             since == Get(data.since, None)
             until == Get(data.until, None)
             limit == LimitOf(data, DefaultGitHubLimit)
         IN  IF ~Truthy(access_token)
             THEN Reply(400, Failure(<<"Access token is required">>), <<>>, <<>>)
             ELSE IF ~Truthy(owner) \/ ~Truthy(repo)
             THEN Reply(400, Failure(<<"Owner and repository name are required">>),
                        <<>>, <<>>)
             ELSE LET fetched == fetch_repo_commits(access_token, owner, repo,
                                                    since, until, limit, gh)
                  IN  Reply(IF fetched.result.success THEN 200 ELSE 400,
                            fetched.result, fetched.calls,
                            FetchedCommits(fetched.result))

\* POST /api/github/parse-url
parse_github_url(data) ==
    IF data.null THEN Caught(AttributeErrorText, <<>>, <<>>)
    ELSE LET url == Get(data.url, None)
         IN  IF ~Truthy(url)
             THEN Reply(400, Failure(<<"URL is required">>), <<>>, <<>>)
             ELSE LET parsed == github_parse_url(url)
                  IN  IF ~parsed.ok
                      THEN Reply(400, Failure(<<"Invalid GitHub URL format">>), <<>>, <<>>)
                      ELSE Reply(200,
                                 [success |-> TRUE, owner |-> parsed.owner,
                                  repo |-> parsed.repo],
                                 <<>>, <<>>)

\* generate_from_github_url fetching without having validated the token.
generate_from_github_url_FetchFirst(data, gh, ai) ==
    IF data.null THEN Caught(AttributeErrorText, <<>>, <<>>)
    ELSE LET access_token == Get(data.access_token, None)
             repo_url == Get(data.repo_url, None)
             since == Get(data.since, None)
             until == Get(data.until, None)
             limit == LimitOf(data, DefaultGitHubLimit)
         IN  IF ~Truthy(repo_url)
             THEN Reply(400, Failure(<<"Repository URL is required">>), <<>>, <<>>)
             ELSE LET parsed == github_parse_url(repo_url)
                  IN  IF ~parsed.ok
                      THEN Reply(400, Failure(<<"Invalid GitHub URL format">>), <<>>, <<>>)
                      ELSE LET fetched == fetch_repo_commits(access_token, parsed.owner,
                                                             parsed.repo, since, until,
                                                             limit, gh)
                               commits == FetchedCommits(fetched.result)
                           IN  IF ~fetched.result.success
                               THEN Reply(400, fetched.result, fetched.calls, <<>>)
                               ELSE IF Len(commits) = 0
                               THEN Reply(400,
                                          Failure(<<"No commits found in the specified range">>),
                                          fetched.calls, commits)
                               ELSE LET notes == generate_release_notes(
                                                     commits, since,
                                                     OrElse(until, <<"HEAD">>), ai)
                                    IN  IF notes.raised
                                        THEN Caught(notes.error,
                                                    fetched.calls \o notes.calls, commits)
                                        ELSE Reply(200,
                                                   [success |-> TRUE, commits |-> commits,
                                                    notes |-> notes.value,
                                                    commit_count |-> Len(commits)],
                                                   fetched.calls \o notes.calls, commits)

\* POST /api/github/generate-from-url
generate_from_github_url(data, gh, ai) ==
    IF data.null THEN Caught(AttributeErrorText, <<>>, <<>>)
    ELSE LET access_token == Get(data.access_token, None)
             repo_url == Get(data.repo_url, None)
             since == Get(data.since, None)
             until == Get(data.until, None)
             limit == LimitOf(data, DefaultGitHubLimit)
         IN  IF ~Truthy(access_token)
             THEN Reply(400, Failure(<<"Access token is required">>), <<>>, <<>>)
             ELSE IF ~Truthy(repo_url)
             THEN Reply(400, Failure(<<"Repository URL is required">>), <<>>, <<>>)
             ELSE LET parsed == github_parse_url(repo_url)
                  IN  IF ~parsed.ok
                      THEN Reply(400, Failure(<<"Invalid GitHub URL format">>), <<>>, <<>>)
                      ELSE LET fetched == fetch_repo_commits(access_token, parsed.owner,
                                                             parsed.repo, since, until,
                                                             limit, gh)
                               commits == FetchedCommits(fetched.result)
                           IN  IF ~fetched.result.success
                               THEN Reply(400, fetched.result, fetched.calls, <<>>)
                               ELSE IF Len(commits) = 0
                               THEN Reply(400,
                                          Failure(<<"No commits found in the specified range">>),
                                          fetched.calls, commits)
                               ELSE LET notes == generate_release_notes(
                                                     commits, since,
                                                     OrElse(until, <<"HEAD">>), ai)
                                    IN  IF notes.raised
                                        THEN Caught(notes.error,
                                                    fetched.calls \o notes.calls, commits)
                                        ELSE Reply(200,
                                                   [success |-> TRUE, commits |-> commits,
                                                    notes |-> notes.value,
                                                    commit_count |-> Len(commits)],
                                                   fetched.calls \o notes.calls, commits)

\* POST /api/github/auth
github_auth(data, tok, usr) ==
    IF data.null THEN Caught(AttributeErrorText, <<>>, <<>>)
    ELSE LET code == Get(data.code, None)
         IN  IF ~Truthy(code)
             THEN Reply(400, Failure(<<"OAuth code is required">>), <<>>, <<>>)
             ELSE LET token == exchange_code_for_token(code, tok)
                  IN  IF ~token.result.success
                      THEN Reply(400, token.result, token.calls, <<>>)
                      ELSE LET user == get_user_info(token.result.access_token, usr)
                           IN  IF ~user.result.success
                               THEN Reply(400,
                                          Failure(<<"Failed to fetch user information">>),
                                          token.calls \o user.calls, <<>>)
                               ELSE Reply(200,
                                          [success |-> TRUE,
                                           access_token |-> token.result.access_token,
                                           user |-> [username |-> user.result.username,
                                                     name |-> user.result.name,
                                                     avatar_url |-> user.result.avatar_url,
                                                     email |-> user.result.email]],
                                          token.calls \o user.calls, <<>>)

\* get_github_repositories answering 200 whatever the service returned.
get_github_repositories_Always200(data, gh) ==
    IF data.null THEN Caught(AttributeErrorText, <<>>, <<>>)
    ELSE LET access_token == Get(data.access_token, None)
         IN  IF ~Truthy(access_token)
             THEN Reply(400, Failure(<<"Access token is required">>), <<>>, <<>>)
             ELSE LET listed == get_user_repositories(access_token, gh)
                  IN  Reply(200, listed.result, listed.calls, <<>>)

\* POST /api/github/repositories
get_github_repositories(data, gh) ==
    IF data.null THEN Caught(AttributeErrorText, <<>>, <<>>)
    ELSE LET access_token == Get(data.access_token, None)
         IN  IF ~Truthy(access_token)
             THEN Reply(400, Failure(<<"Access token is required">>), <<>>, <<>>)
             ELSE LET listed == get_user_repositories(access_token, gh)
                  IN  Reply(IF listed.result.success THEN 200 ELSE 400,
                            listed.result, listed.calls, <<>>)

(***************************************************************************)
(* The command-line client (cli/git_ship_note.py).  What console.print     *)
(* receives is a sequence of strings, one per call; the markup literals of *)
(* the program are single elements, the text taken from the changelog is   *)
(* kept character by character.                                            *)
(***************************************************************************)
LowerLetters ==
    <<"a", "b", "c", "d", "e", "f", "g", "h", "i", "j", "k", "l", "m", "n",
      "o", "p", "q", "r", "s", "t", "u", "v", "w", "x", "y", "z">>

UpperLetters ==
    <<"A", "B", "C", "D", "E", "F", "G", "H", "I", "J", "K", "L", "M", "N",
      "O", "P", "Q", "R", "S", "T", "U", "V", "W", "X", "Y", "Z">>

\* str.upper() and str.lower() on the letters a-z.
UpperChar(c) ==
    IF \E k \in 1..26 : LowerLetters[k] = c
    THEN UpperLetters[CHOOSE k \in 1..26 : LowerLetters[k] = c]
    ELSE c

LowerChar(c) ==
    IF \E k \in 1..26 : UpperLetters[k] = c
    THEN LowerLetters[CHOOSE k \in 1..26 : UpperLetters[k] = c]
    ELSE c

Upper(s) == [i \in 1..Len(s) |-> UpperChar(s[i])]

Lower(s) == [i \in 1..Len(s) |-> LowerChar(s[i])]

\* str.rstrip(':')
RECURSIVE RStripColon(_)
RStripColon(s) ==
    IF s = <<>> THEN s
    ELSE IF s[Len(s)] = ":" THEN RStripColon(SubSeq(s, 1, Len(s) - 1)) ELSE s

\* str.rsplit(c, 1): at most one split, at the last occurrence of c.
RECURSIVE RFindFrom(_, _, _)
RFindFrom(s, c, i) ==
    IF i = 0 THEN 0
    ELSE IF s[i] = c THEN i ELSE RFindFrom(s, c, i - 1)

RSplitOnce(s, c) ==
    LET i == RFindFrom(s, c, Len(s))
    IN  IF i = 0 THEN <<s>>
        ELSE <<SubSeq(s, 1, i - 1), SubSeq(s, i + 1, Len(s))>>

HeaderMarker == <<"#", "#", " ">>
ItemMarker == <<"-", " ">>

\* line.replace('##', '').strip().rstrip(':')
SectionName(line) == RStripColon(Strip(Remove(line, <<"#", "#">>)))

\* section_colors, in the order of the dictionary.
SectionColors ==
    <<[key |-> <<"F", "e", "a", "t", "u", "r", "e", "s">>, col |-> "green"],
      [key |-> <<"F", "i", "x", "e", "s">>, col |-> "red"],
      [key |-> <<"I", "m", "p", "r", "o", "v", "e", "m", "e", "n", "t", "s">>,
       col |-> "blue"],
      [key |-> <<"D", "o", "c", "u", "m", "e", "n", "t", "a", "t", "i", "o", "n">>,
       col |-> "cyan"],
      [key |-> <<"D", "e", "l", "e", "t", "i", "o", "n", "s">>, col |-> "magenta"],
      [key |-> <<"O", "t", "h", "e", "r">>, col |-> "yellow"]>>

\* The colour of the first key contained in the section name, else white.
ColorOf(section_name) ==
    LET matches == {k \in 1..Len(SectionColors) :
                        Contains(Lower(section_name), Lower(SectionColors[k].key))}
    IN  IF matches = {} THEN "white"
        ELSE SectionColors[CHOOSE k \in matches : \A j \in matches : k <= j].col

\* 's' if commit_count != 1 else ''
PluralS(commit_count) == IF commit_count # 1 THEN <<"s">> ELSE <<>>

Rule70 == "======================================================================"

\* The bullet character U+2022 of the item lines.
Bullet == "(U+2022)"

\* The six calls that print the title.
TitleLines(commit_count) ==
    <<<<"\n">>,
      <<"[bold yellow]", Rule70, "[/bold yellow]">>,
      <<"[bold yellow]                            CHANGELOG                              [/bold yellow]">>,
      <<"[bold yellow]                      (Last ">> \o Str(commit_count)
          \o <<" commit">> \o PluralS(commit_count)
          \o <<")                     [/bold yellow]">>,
      <<"[bold yellow]", Rule70, "[/bold yellow]">>,
      <<"\n">>>>

\* DisplayLine classifying the line as it stands, without line.strip().
DisplayLine_NoStrip(line0) ==
    LET line == line0
    IN  IF line = <<>> THEN <<>>
        ELSE IF StartsWith(line, HeaderMarker)
        THEN LET section_name == SectionName(line)
                 color == ColorOf(section_name)
             IN  <<<<"\n", "[bold ", color, "]*** ">> \o Upper(section_name)
                      \o <<" ***[/bold ", color, "]", "\n">>>>
        ELSE IF StartsWith(line, ItemMarker)
        THEN LET item == Strip(SubSeq(line, 3, Len(line)))
             IN  IF Contains(item, <<"(">>) /\ Contains(item, <<")">>)
                 THEN LET parts == RSplitOnce(item, "(")
                          text_part == Strip(parts[1])
                          time_part == <<"(">> \o parts[2]
                      IN  <<<<"  [white]", Bullet, "[/white] ">> \o text_part
                               \o <<" [bold yellow]">> \o time_part
                               \o <<"[/bold yellow]">>,
                            <<>>>>
                 ELSE <<<<"  [white]", Bullet, "[/white] ">> \o item, <<>>>>
        ELSE <<>>

\* What one line of the changelog makes display_changelog_terminal print.
DisplayLine(line0) ==
    LET line == Strip(line0)
    IN  IF line = <<>> THEN <<>>
        ELSE IF StartsWith(line, HeaderMarker)
        THEN LET section_name == SectionName(line)
                 color == ColorOf(section_name)
             IN  <<<<"\n", "[bold ", color, "]*** ">> \o Upper(section_name)
                      \o <<" ***[/bold ", color, "]", "\n">>>>
        ELSE IF StartsWith(line, ItemMarker)
        THEN LET item == Strip(SubSeq(line, 3, Len(line)))
             IN  IF Contains(item, <<"(">>) /\ Contains(item, <<")">>)
                 THEN LET parts == RSplitOnce(item, "(")
                          text_part == Strip(parts[1])
                          time_part == <<"(">> \o parts[2]
                      IN  <<<<"  [white]", Bullet, "[/white] ">> \o text_part
                               \o <<" [bold yellow]">> \o time_part
                               \o <<"[/bold yellow]">>,
                            <<>>>>
                 ELSE <<<<"  [white]", Bullet, "[/white] ">> \o item, <<>>>>
        ELSE <<>>

RECURSIVE DisplayLines(_)
DisplayLines(lines) ==
    IF lines = <<>> THEN <<>>
    ELSE DisplayLine(Head(lines)) \o DisplayLines(Tail(lines))

\* display_changelog_terminal(changelog_text, commit_count): the strings
\* printed, in order.
display_changelog_terminal(changelog_text, commit_count) ==
    TitleLines(commit_count)
        \o DisplayLines(Split(Strip(changelog_text), "\n"))
        \o <<<<"\n", Rule70, "\n">>>>

\* MdHeading writing a level-2 heading.
MdHeading_Level2(section_name) ==
    <<"\n", "#", "#", " ">> \o Upper(section_name) \o <<"\n", "\n">>

\* The heading format_changelog_md writes for a section.
MdHeading(section_name) ==
    <<"\n", "#", "#", "#", " ">> \o Upper(section_name) \o <<"\n", "\n">>

\* MdItem without the line break after the item.
MdItem_NoLineBreak(line) == line

\* The text format_changelog_md writes for an item line.
MdItem(line) == line \o <<"\n", "\n">>

FormatLine(line0) ==
    LET line == Strip(line0)
    IN  IF line = <<>> THEN <<>>
        ELSE IF StartsWith(line, HeaderMarker) THEN MdHeading(SectionName(line))
        ELSE IF StartsWith(line, ItemMarker) THEN MdItem(line)
        ELSE <<>>

RECURSIVE FormatLines(_)
FormatLines(lines) ==
    IF lines = <<>> THEN <<>>
    ELSE FormatLine(Head(lines)) \o FormatLines(Tail(lines))

\* format_changelog_md(changelog_text, commit_count): the markdown text.
format_changelog_md(changelog_text, commit_count) ==
    <<"#", " ", "C", "H", "A", "N", "G", "E", "L", "O", "G", "\n", "\n">>
        \o <<"*", "L", "a", "s", "t", " ">> \o Str(commit_count)
        \o <<" ", "c", "o", "m", "m", "i", "t">> \o PluralS(commit_count)
        \o <<"*", "\n", "\n">>
        \o <<"-", "-", "-", "\n", "\n">>
        \o FormatLines(Split(Strip(changelog_text), "\n"))

\* The line-oriented parsing both renderers perform, with the section
\* marker as a parameter: the section headers and the item lines of a text,
\* in order.
ParseEntry(line0, marker) ==
    LET line == Strip(line0)
    IN  IF line = <<>> THEN <<>>
        ELSE IF StartsWith(line, marker \o <<" ">>)
        THEN <<[kind |-> "section", text |-> RStripColon(Strip(Remove(line, marker)))]>>
        ELSE IF StartsWith(line, ItemMarker)
        THEN <<[kind |-> "item", text |-> line]>>
        ELSE <<>>

RECURSIVE ParseEntryLines(_, _)
ParseEntryLines(lines, marker) ==
    IF lines = <<>> THEN <<>>
    ELSE ParseEntry(Head(lines), marker) \o ParseEntryLines(Tail(lines), marker)

ParseEntries(text, marker) == ParseEntryLines(Split(Strip(text), "\n"), marker)

\* int(response) for a string of decimal digits; any other string raises
\* ValueError.
DigitChars == {Digit(d) : d \in 0..9}

IsIntText(s) == s # <<>> /\ \A i \in 1..Len(s) : s[i] \in DigitChars

RECURSIVE IntOf(_)
IntOf(s) ==
    IF s = <<>> THEN 0
    ELSE 10 * IntOf(SubSeq(s, 1, Len(s) - 1))
             + (CHOOSE d \in 0..9 : Digit(d) = s[Len(s)])

\* len([line for line in stdout.strip().split('\n') if '|' in line])
RECURSIVE CountLogLines(_)
CountLogLines(lines) ==
    IF lines = <<>> THEN 0
    ELSE (IF Contains(Head(lines), <<"|">>) THEN 1 ELSE 0) + CountLogLines(Tail(lines))

(***************************************************************************)
(* Inputs: request bodies and outcomes of the external collaborators.      *)
(***************************************************************************)
\* A JSON object with none of the keys the handlers read.
EmptyObject ==
    [null |-> FALSE,
     commits |-> [present |-> FALSE, value |-> <<>>],
     limit |-> [present |-> FALSE, value |-> 0],
     from |-> Absent, to |-> Absent, repo_path |-> Absent,
     git_log_text |-> Absent, access_token |-> Absent, owner |-> Absent,
     repo |-> Absent, since |-> Absent, until |-> Absent,
     repo_url |-> Absent, url |-> Absent, code |-> Absent]

\* The JSON body `null`: request.json is None.
NullBody == [EmptyObject EXCEPT !.null = TRUE]

SeqsUpTo(S, n) == UNION {[1..k -> S] : k \in 0..n}

\* messages.create: a changelog, or one of the exceptions the handlers name.
SampleChangelog ==
    <<"#", "#", " ", "F", "i", "x", "e", "s", ":", "\n", "-", " ", "x", " ", "(", "t", ")">>

AiOutcomes ==
    {[kind |-> "ok", text |-> SampleChangelog, input_tokens |-> 12, output_tokens |-> 34]}
    \cup {[kind |-> k, text |-> <<"overloaded">>, input_tokens |-> 0, output_tokens |-> 0] :
             k \in {"APIError", "APIConnectionError", "RateLimitError", "Exception"}}

\* Commit dictionaries a client may post to /api/generate-notes.
PostedCommits ==
    [hash : {<<"a", "8", "3">>},
     message : {Absent, <<"f", "i", "x">>, <<"a", "\n", "b">>},
     author : {Absent, <<"A", "n", "n">>},
     date : {Absent, <<"N", "o", "v">>}]

NotesBodies ==
    {NullBody}
    \cup {[EmptyObject EXCEPT !.commits = c, !.from = f] :
             c \in {[present |-> FALSE, value |-> <<>>]}
                   \cup {[present |-> TRUE, value |-> v] : v \in SeqsUpTo(PostedCommits, MaxCommits)},
             f \in {Absent, <<"v", "1">>}}

\* Pasted git-log text.
TextAlphabet == {"a", "b", " ", "\t", "\n"}

Texts == SeqsUpTo(TextAlphabet, MaxTextLen)

TextBodies ==
    {NullBody, EmptyObject, [EmptyObject EXCEPT !.git_log_text = None]}
    \cup {[EmptyObject EXCEPT !.git_log_text = t] : t \in Texts}

\* Local repositories: Repo()/iter_commits raise, or deliver commits.
MaxGitCommits == 2

SampleSha == <<"a", "8", "3", "b", "1", "c", "9", "d", "e">>

GitCommits ==
    [hexsha : {SampleSha},
     message : {<<>>, <<" ", "\n">>, <<"f", "i", "x", "\n">>},
     author_name : {<<"A", "n", "n">>},
     committed_date : {0},
     files : {1}]

GitOutcomes ==
    {[kind |-> "error", text |-> <<"bad revision">>, commits |-> <<>>]}
    \cup {[kind |-> "ok", text |-> <<>>, commits |-> c] :
             c \in SeqsUpTo(GitCommits, MaxGitCommits)}

RepoBodies ==
    {NullBody}
    \cup {[EmptyObject EXCEPT !.repo_path = p, !.from = f, !.limit = l] :
             p \in {Absent, <<>>, <<"/", "r">>},
             f \in {Absent, <<"v", "1">>},
             l \in {[present |-> FALSE, value |-> 0], [present |-> TRUE, value |-> 1]}}

\* GitHub: requests.get raises, answers with an error status, or delivers
\* commits_data.
MaxGitHubCommits == 1

GitHubCommits ==
    [sha : {SampleSha},
     html_url : {<<"u">>},
     author : {[null |-> TRUE, login |-> Absent],
               [null |-> FALSE, login |-> <<>>],
               [null |-> FALSE, login |-> <<"l", "o", "g">>]},
     commit : [message : {Absent, <<"f", "i", "x">>},
               author : {[state |-> "absent", name |-> Absent, date |-> Absent],
                         [state |-> "null", name |-> Absent, date |-> Absent],
                         [state |-> "dict", name |-> <<>>, date |-> <<"d">>],
                         [state |-> "dict", name |-> <<"A", "n", "n">>, date |-> <<"d">>]},
               committer : {[null |-> TRUE, name |-> Absent],
                            [null |-> FALSE, name |-> <<>>],
                            [null |-> FALSE, name |-> <<"B", "o", "b">>]}]]

GitHubOutcomes ==
    {[kind |-> "ConnectionError", status |-> 0, text |-> <<"connection refused">>,
      commits |-> <<>>]}
    \cup {[kind |-> "HTTPError", status |-> st, text |-> <<"error for url">>,
           commits |-> <<>>] : st \in {403, 404, 500}}
    \cup {[kind |-> "ok", status |-> 200, text |-> <<>>, commits |-> c] :
             c \in SeqsUpTo(GitHubCommits, MaxGitHubCommits)}

GitHubCommitsBodies ==
    {NullBody}
    \cup {[EmptyObject EXCEPT !.access_token = t, !.owner = o, !.repo = r, !.limit = l] :
             t \in {Absent, <<"t", "o", "k">>},
             o \in {Absent, <<"o">>},
             r \in {<<>>, <<"r">>},
             l \in {[present |-> FALSE, value |-> 0], [present |-> TRUE, value |-> 150]}}

\* OAuth: request bodies and what github.com and the API answer.
AuthBodies ==
    {NullBody} \cup {[EmptyObject EXCEPT !.code = c] : c \in {Absent, <<>>, <<"c", "0", "d", "e">>}}

NoToken == [access_token |-> Absent, token_type |-> Absent, error_description |-> Absent]

TokenOutcomes ==
    {[kind |-> "ConnectionError", text |-> <<"connection refused">>, json |-> NoToken],
     [kind |-> "HTTPError", text |-> <<"error for url">>, json |-> NoToken],
     [kind |-> "ok", text |-> <<>>, json |-> NoToken],
     [kind |-> "ok", text |-> <<>>,
      json |-> [NoToken EXCEPT !.error_description = <<"The code passed is incorrect or expired.">>]],
     [kind |-> "ok", text |-> <<>>,
      json |-> [NoToken EXCEPT !.access_token = <<"t", "o", "k">>]]}

UserOutcomes ==
    {[kind |-> "HTTPError", text |-> <<"error for url">>,
      json |-> [login |-> Absent, name |-> Absent, avatar_url |-> Absent, email |-> Absent]],
     [kind |-> "ok", text |-> <<>>,
      json |-> [login |-> <<"l", "o", "g">>, name |-> None,
                avatar_url |-> <<"u">>, email |-> Absent]]}

RepositoriesBodies ==
    {NullBody} \cup {[EmptyObject EXCEPT !.access_token = t] : t \in {Absent, <<"t", "o", "k">>}}

SampleRepo ==
    [id |-> <<"1">>, name |-> <<"r">>, description |-> Absent, clone_url |-> <<"u">>]

ReposOutcomes ==
    {[kind |-> "ConnectionError", text |-> <<"connection refused">>, json |-> <<>>],
     [kind |-> "HTTPError", text |-> <<"error for url">>, json |-> <<>>],
     [kind |-> "ok", text |-> <<>>, json |-> <<>>],
     [kind |-> "ok", text |-> <<>>, json |-> <<SampleRepo>>],
     [kind |-> "ok", text |-> <<>>,
      json |-> <<SampleRepo, [SampleRepo EXCEPT !.clone_url = Absent]>>]}

\* Repository URLs.
HttpsPrefix == <<"h", "t", "t", "p", "s", ":", "/", "/">>

GitlabCom == <<"g", "i", "t", "l", "a", "b", ".", "c", "o", "m">>

Urls ==
    {HttpsPrefix \o GithubCom \o <<"/", "o", "/", "r">>,
     <<"g", "i", "t", "@">> \o GithubCom \o <<":", "o", "/", "r">> \o DotGit,
     HttpsPrefix \o GithubCom \o <<"/", "o">>,
     HttpsPrefix \o GitlabCom \o <<"/", "o", "/", "r">>}

UrlBodies ==
    {NullBody}
    \cup {[EmptyObject EXCEPT !.url = u] : u \in {Absent, <<>>} \cup Urls}

FromUrlBodies ==
    {NullBody}
    \cup {[EmptyObject EXCEPT !.access_token = t, !.repo_url = u, !.until = un] :
             t \in {Absent, <<"t", "o", "k">>},
             u \in {Absent, <<>>} \cup Urls,
             un \in {Absent, <<"2", "0", "2", "4">>}}

\* Concatenations of at most n pieces of P.
RECURSIVE ConcatsOf(_, _)
ConcatsOf(P, n) ==
    IF n = 0 THEN {<<>>}
    ELSE LET S == ConcatsOf(P, n - 1) IN S \cup {x \o y : x \in S, y \in P}

\* Repository URLs of the three documented forms: owner and repository names
\* are built from pieces, one of which is ".git"; a name is not empty and
\* does not end in ".git".
MaxNamePieces == 3

GitAtPrefix == <<"g", "i", "t", "@">>

NamePieces == {<<"o">>, <<"r">>, <<"h", "u", "b">>, DotGit}

EndsWith(x, pat) ==
    Len(x) >= Len(pat) /\ SubSeq(x, Len(x) - Len(pat) + 1, Len(x)) = pat

OwnerNames == {n \in ConcatsOf(NamePieces, 1) : n # <<>> /\ ~EndsWith(n, DotGit)}

RepoNames ==
    {n \in ConcatsOf(NamePieces, MaxNamePieces) : n # <<>> /\ ~EndsWith(n, DotGit)}

UrlPrefixes ==
    {HttpsPrefix \o GithubCom \o <<"/">>,
     GithubCom \o <<"/">>,
     GitAtPrefix \o GithubCom \o <<":">>}

FormUrls ==
    {prefix \o owner \o <<"/">> \o repo \o suffix \o slash :
         prefix \in UrlPrefixes, owner \in OwnerNames, repo \in RepoNames,
         suffix \in {<<>>, DotGit}, slash \in {<<>>, <<"/">>}}

\* Arbitrary URL strings: concatenations of pieces of a URL, and one URL in
\* which ".git" sits inside the host name.
MaxUrlPieces == 4

UrlPieces == {HttpsPrefix, GithubCom, DotGit, <<"/">>, <<":">>, <<"o">>, <<"r">>}

AnyUrls ==
    ConcatsOf(UrlPieces, MaxUrlPieces)
    \cup {<<"g", "i", "t", "h", "u", "b", ".", "c">> \o DotGit
              \o <<"o", "m", "/", "o", "/", "r">>}

\* The command-line client: its arguments, what the user types, and the
\* outcomes of git, of the backend and of the editor.
RepoUrl == HttpsPrefix \o GithubCom \o <<"/", "o", "/", "r">>

CliArgs ==
    [url : {Absent, RepoUrl},
     limit : {[present |-> FALSE, value |-> 0], [present |-> TRUE, value |-> 0],
              [present |-> TRUE, value |-> 5], [present |-> TRUE, value |-> 150]},
     keep_temp : BOOLEAN]

UrlAnswers == {<<>>, <<" ">>, <<" ">> \o RepoUrl}

CountResponses ==
    {<<>>, <<"5">>, <<" ", "7", " ">>, <<"0">>, <<"1", "0", "0">>, <<"1", "0", "1">>, <<"x">>}

SaveResponses == {<<"y">>, <<" ", "Y", "E", "S", " ">>, <<"n">>, <<"n", "o">>, <<"m", "a", "y", "b", "e">>}

GitCloneOutcomes ==
    {[kind |-> "completed", returncode |-> 0],
     [kind |-> "completed", returncode |-> 128],
     [kind |-> "FileNotFoundError", returncode |-> 0]}

GitLogOutcomes ==
    {[returncode |-> 128, stdout |-> <<>>],
     [returncode |-> 0, stdout |-> <<>>],
     [returncode |-> 0,
      stdout |-> <<"a", "1", "|", "N", "o", "v", " ", "0", "3", "|", "A", "n", "n", "|", "f", "i", "x", "\n", "M", "\t", "f", ".", "p", "y", "\n">>]}

CliNotes == {SampleChangelog, <<>>}

BackendOutcomes ==
    {[kind |-> "RequestException", status |-> 0, success |-> FALSE, notes |-> Absent]}
    \cup {[kind |-> "response", status |-> st, success |-> FALSE, notes |-> Absent] :
             st \in {200, 400, 500}}
    \cup {[kind |-> "response", status |-> 200, success |-> TRUE, notes |-> n] :
             n \in CliNotes}

EditorOutcomes == {"opened", "FileNotFoundError", "CalledProcessError"}

\* Changelog texts: at most MaxChangelogLines lines of LinePool.
MaxChangelogLines == 3

LinePool ==
    {<<"#", "#", " ", "F", "i", "x", "e", "s", ":">>,
     <<"#", "#", " ", "b">>,
     <<"#", "#", " ", ":">>,
     <<"#", "#", " ", "A", " ", ":">>,
     <<"#", "#", " ", "a", "#", "#", "b">>,
     <<"-", " ", "x", " ", "(", "t", ")">>,
     <<"-", " ", "(", "t", ")", " ", "z">>,
     <<" ", "-", " ", "y", " ">>,
     <<"n", "o", "t", "e">>,
     <<>>}

ChangelogTexts ==
    {Join(lines, <<"\n">>) : lines \in SeqsUpTo(LinePool, MaxChangelogLines)}

CommitCounts == {1, 2}

(***************************************************************************)
(* The server: one request at a time, each handled by its endpoint.        *)
(***************************************************************************)

NoRequest == [endpoint |-> "", data |-> EmptyObject]

NoResponse == [status |-> 0, body |-> [success |-> FALSE]]

\* No run of the command-line client.
NoRun ==
    [pc |-> "none",
     args |-> [url |-> Absent, limit |-> [present |-> FALSE, value |-> 0],
               keep_temp |-> FALSE],
     git_url |-> Absent, commit_limit |-> 0, raw_log |-> Absent,
     commit_count |-> 0, changelog |-> Absent,
     prompts |-> 0, in_try |-> FALSE, exit_code |-> -1]

Init ==
    /\ pc = "idle"
    /\ req = NoRequest
    /\ resp = NoResponse
    /\ calls = <<>>
    /\ records = <<>>
    /\ cli = NoRun
    /\ temp_dir = "none"
    /\ printed = <<>>
    /\ markdown = <<>>

\* The handler of `endpoint` answers the request with body `data` by `out`.
Serve(endpoint, data, out) ==
    /\ pc' = "done"
    /\ req' = [endpoint |-> endpoint, data |-> data]
    /\ resp' = [status |-> out.status, body |-> out.body]
    /\ calls' = out.calls
    /\ records' = out.commits
    /\ UNCHANGED clientVars

GenerateNotes ==
    /\ pc = "idle"
    /\ \E data \in NotesBodies, ai \in AiOutcomes :
            Serve("/api/generate-notes", data, generate_notes(data, ai))

FetchCommits ==
    /\ pc = "idle"
    /\ \E data \in RepoBodies, git \in GitOutcomes :
            Serve("/api/fetch-commits", data, fetch_commits(data, git))

GenerateFromRepo ==
    /\ pc = "idle"
    /\ \E data \in RepoBodies, git \in GitOutcomes, ai \in AiOutcomes :
            Serve("/api/generate-from-repo", data, generate_from_repo(data, git, ai))

GenerateFromText ==
    /\ pc = "idle"
    /\ \E data \in TextBodies, ai \in AiOutcomes :
            Serve("/api/generate-from-text", data, generate_from_text(data, ai))

FetchGithubCommits ==
    /\ pc = "idle"
    /\ \E data \in GitHubCommitsBodies, gh \in GitHubOutcomes :
            Serve("/api/github/commits", data, fetch_github_commits(data, gh))

ParseGithubUrl ==
    /\ pc = "idle"
    /\ \E data \in UrlBodies :
            Serve("/api/github/parse-url", data, parse_github_url(data))

GenerateFromGithubUrl ==
    /\ pc = "idle"
    /\ \E data \in FromUrlBodies, gh \in GitHubOutcomes, ai \in AiOutcomes :
            Serve("/api/github/generate-from-url", data,
                  generate_from_github_url(data, gh, ai))

GithubAuth ==
    /\ pc = "idle"
    /\ \E data \in AuthBodies, tok \in TokenOutcomes, usr \in UserOutcomes :
            Serve("/api/github/auth", data, github_auth(data, tok, usr))

GetGithubRepositories ==
    /\ pc = "idle"
    /\ \E data \in RepositoriesBodies, gh \in ReposOutcomes :
            Serve("/api/github/repositories", data, get_github_repositories(data, gh))

\* The response has been sent; nothing of the request outlives it.
NextRequest ==
    /\ pc = "done"
    /\ pc' = "idle"
    /\ req' = NoRequest
    /\ resp' = NoResponse
    /\ calls' = <<>>
    /\ records' = <<>>
    /\ UNCHANGED clientVars

Next ==
    \/ FetchCommits
    \/ FetchGithubCommits
    \/ ParseGithubUrl
    \/ GenerateNotes
    \/ GenerateFromRepo
    \/ GenerateFromText
    \/ GenerateFromGithubUrl
    \/ GithubAuth
    \/ GetGithubRepositories
    \/ NextRequest

Spec == Init /\ [][Next]_vars

(***************************************************************************)
(* URL parsing alone: POST /api/github/parse-url over the documented forms *)
(* and over arbitrary URL strings.                                         *)
(***************************************************************************)
ParseFormUrl ==
    /\ pc = "idle"
    /\ \E u \in FormUrls :
            LET data == [EmptyObject EXCEPT !.url = u]
            IN  Serve("/api/github/parse-url", data, parse_github_url(data))

ParseAnyUrl ==
    /\ pc = "idle"
    /\ \E u \in AnyUrls :
            LET data == [EmptyObject EXCEPT !.url = u]
            IN  Serve("/api/github/parse-url", data, parse_github_url(data))

NextUrl ==
    \/ ParseFormUrl
    \/ ParseAnyUrl
    \/ NextRequest

SpecUrl == Init /\ [][NextUrl]_vars

(***************************************************************************)
(* One run of the command-line client: main() step by step.  exit_code is  *)
(* -1 while the body of main runs; inside the try block it is set when the *)
(* block is left, and the finally clause runs before the process exits.    *)
(***************************************************************************)
MaxPrompts == 2

DefaultCommitCount == 50

InitCli ==
    /\ pc = "idle"
    /\ req = NoRequest
    /\ resp = NoResponse
    /\ calls = <<>>
    /\ records = <<>>
    /\ cli \in {[NoRun EXCEPT !.pc = "url", !.args = a] : a \in CliArgs}
    /\ temp_dir = "none"
    /\ printed = <<>>
    /\ markdown = <<>>

\* git_url = args.url, or what the user types; sys.exit(1) when it is empty.
ResolveUrl ==
    /\ cli.pc = "url"
    /\ \E answer \in UrlAnswers :
           LET git_url == IF Truthy(cli.args.url) THEN cli.args.url ELSE Strip(answer)
           IN  cli' = IF ~Truthy(git_url)
                      THEN [cli EXCEPT !.pc = "exited", !.exit_code = 1]
                      ELSE [cli EXCEPT !.pc = "limit", !.git_url = git_url]
    /\ UNCHANGED <<serverVars, calls, temp_dir, printed, markdown>>

\* commit_limit = args.limit if args.limit else get_commit_count()
ResolveLimit ==
    /\ cli.pc = "limit"
    /\ cli' = IF cli.args.limit.present /\ cli.args.limit.value # 0
              THEN [cli EXCEPT !.pc = "mkdtemp", !.commit_limit = cli.args.limit.value]
              ELSE [cli EXCEPT !.pc = "ask_count"]
    /\ UNCHANGED <<serverVars, calls, temp_dir, printed, markdown>>

\* One round of the loop of get_commit_count.
GetCommitCount ==
    /\ cli.pc = "ask_count"
    /\ \E answer \in CountResponses :
           LET response == Strip(answer)
           IN  IF response = <<>>
               THEN cli' = [cli EXCEPT !.pc = "mkdtemp",
                                       !.commit_limit = DefaultCommitCount]
               ELSE IF IsIntText(response) /\ 1 <= IntOf(response)
                          /\ IntOf(response) <= 100
               THEN cli' = [cli EXCEPT !.pc = "mkdtemp",
                                       !.commit_limit = IntOf(response)]
               ELSE /\ cli.prompts < MaxPrompts
                    /\ cli' = [cli EXCEPT !.prompts = @ + 1]
    /\ UNCHANGED <<serverVars, calls, temp_dir, printed, markdown>>

\* clone_repo: tempfile.mkdtemp
MkDtemp ==
    /\ cli.pc = "mkdtemp"
    /\ cli' = [cli EXCEPT !.pc = "clone"]
    /\ temp_dir' = "present"
    /\ UNCHANGED <<serverVars, calls, printed, markdown>>

\* clone_repo: git clone.  A failed clone removes the directory and exits
\* with 1; an exception of subprocess.run leaves clone_repo and main.
GitClone ==
    /\ cli.pc = "clone"
    /\ \E outcome \in GitCloneOutcomes :
           /\ calls' = Append(calls, Call("git clone",
                                          [url |-> cli.git_url,
                                           depth |-> cli.commit_limit], outcome))
           /\ IF outcome.kind = "FileNotFoundError"
              THEN /\ cli' = [cli EXCEPT !.pc = "exited", !.exit_code = 1]
                   /\ UNCHANGED temp_dir
              ELSE IF outcome.returncode # 0
              THEN /\ cli' = [cli EXCEPT !.pc = "exited", !.exit_code = 1]
                   /\ temp_dir' = "removed"
              ELSE /\ cli' = [cli EXCEPT !.pc = "log", !.in_try = TRUE]
                   /\ UNCHANGED temp_dir
    /\ UNCHANGED <<serverVars, printed, markdown>>

\* get_raw_git_log
GetRawGitLog ==
    /\ cli.pc = "log"
    /\ \E outcome \in GitLogOutcomes :
           /\ calls' = Append(calls, Call("git log", [limit |-> cli.commit_limit],
                                          outcome))
           /\ cli' = IF outcome.returncode # 0
                     THEN [cli EXCEPT !.pc = "finally", !.exit_code = 1]
                     ELSE [cli EXCEPT
                              !.pc = "generate",
                              !.raw_log = Strip(outcome.stdout),
                              !.commit_count =
                                  CountLogLines(Split(Strip(outcome.stdout), "\n"))]
    /\ UNCHANGED <<serverVars, temp_dir, printed, markdown>>

\* generate_changelog(raw_log, api_url) of the client: one POST to
\* /api/generate-from-text.
PostGitLog ==
    /\ cli.pc = "generate"
    /\ \E outcome \in BackendOutcomes :
           /\ calls' = Append(calls, Call("backend",
                                          [url |-> "/api/generate-from-text",
                                           git_log_text |-> cli.raw_log], outcome))
           /\ cli' = IF outcome.kind = "response" /\ outcome.status = 200
                          /\ outcome.success
                     THEN [cli EXCEPT !.pc = "display", !.changelog = outcome.notes]
                     ELSE [cli EXCEPT !.pc = "finally", !.exit_code = 1]
    /\ UNCHANGED <<serverVars, temp_dir, printed, markdown>>

DisplayChangelog ==
    /\ cli.pc = "display"
    /\ printed' = display_changelog_terminal(cli.changelog, cli.commit_count)
    /\ cli' = [cli EXCEPT !.pc = "ask_save"]
    /\ UNCHANGED <<serverVars, calls, temp_dir, markdown>>

\* One round of the loop of ask_save_to_file.
AskSaveToFile ==
    /\ cli.pc = "ask_save"
    /\ \E answer \in SaveResponses :
           LET response == Lower(Strip(answer))
           IN  IF response \in {<<"y", "e", "s">>, <<"y">>}
               THEN cli' = [cli EXCEPT !.pc = "save"]
               ELSE IF response \in {<<"n", "o">>, <<"n">>}
               THEN cli' = [cli EXCEPT !.pc = "finally", !.exit_code = 0]
               ELSE /\ cli.prompts < MaxPrompts
                    /\ cli' = [cli EXCEPT !.prompts = @ + 1]
    /\ UNCHANGED <<serverVars, calls, temp_dir, printed, markdown>>

\* save_to_temp_markdown: the file is written, then opened; only
\* FileNotFoundError of the editor is caught.
SaveToTempMarkdown ==
    /\ cli.pc = "save"
    /\ markdown' = format_changelog_md(cli.changelog, cli.commit_count)
    /\ \E editor \in EditorOutcomes :
           cli' = [cli EXCEPT !.pc = "finally",
                              !.exit_code = IF editor = "CalledProcessError"
                                            THEN 1 ELSE 0]
    /\ UNCHANGED <<serverVars, calls, temp_dir, printed>>

\* The finally clause of main, then the end of the process.
Finally ==
    /\ cli.pc = "finally"
    /\ temp_dir' = IF cli.args.keep_temp THEN temp_dir ELSE "removed"
    /\ cli' = [cli EXCEPT !.pc = "exited"]
    /\ UNCHANGED <<serverVars, calls, printed, markdown>>

\* Ctrl-C while main runs: KeyboardInterrupt is raised where the program is;
\* inside the try block the finally clause runs, elsewhere the process ends.
\* The interpreter ends an interrupted process with status 130.
InterruptiblePcs ==
    {"url", "limit", "ask_count", "mkdtemp", "clone", "log", "generate", "display",
     "ask_save", "save"}

KeyboardInterrupt ==
    /\ cli.pc \in InterruptiblePcs
    /\ cli' = IF cli.in_try
              THEN [cli EXCEPT !.pc = "finally", !.exit_code = 130]
              ELSE [cli EXCEPT !.pc = "exited", !.exit_code = 130]
    /\ UNCHANGED <<serverVars, calls, temp_dir, printed, markdown>>

NextCli ==
    \/ KeyboardInterrupt
    \/ ResolveUrl
    \/ ResolveLimit
    \/ GetCommitCount
    \/ MkDtemp
    \/ GitClone
    \/ GetRawGitLog
    \/ PostGitLog
    \/ DisplayChangelog
    \/ AskSaveToFile
    \/ SaveToTempMarkdown
    \/ Finally

SpecCli == InitCli /\ [][NextCli]_vars

(***************************************************************************)
(* Every pipeline invocation: one HTTP request to the server, or one run   *)
(* of the command-line client.                                             *)
(***************************************************************************)
InitPipeline == Init \/ InitCli

NextPipeline ==
    \/ cli.pc = "none" /\ Next
    \/ NextCli

SpecPipeline == InitPipeline /\ [][NextPipeline]_vars

(***************************************************************************)
(* The renderers alone: main() from display_changelog_terminal on, for     *)
(* every changelog text the backend may have returned.  The commit count   *)
(* only enters the title, so it varies for one text.                       *)
(***************************************************************************)
InitRender ==
    /\ pc = "idle"
    /\ req = NoRequest
    /\ resp = NoResponse
    /\ calls = <<>>
    /\ records = <<>>
    /\ cli \in {[NoRun EXCEPT !.pc = "display", !.in_try = TRUE,
                              !.changelog = text, !.commit_count = 2] :
                    text \in ChangelogTexts}
               \cup {[NoRun EXCEPT !.pc = "display", !.in_try = TRUE,
                                   !.changelog = SampleChangelog, !.commit_count = n] :
                         n \in CommitCounts}
    /\ temp_dir = "present"
    /\ printed = <<>>
    /\ markdown = <<>>

NextRender ==
    \/ DisplayChangelog
    \/ AskSaveToFile
    \/ SaveToTempMarkdown

SpecRender == InitRender /\ [][NextRender]_vars

(***************************************************************************)
(* Properties.                                                             *)
(***************************************************************************)
Done(endpoint) == pc = "done" /\ req.endpoint = endpoint

GenerationEndpoints ==
    {"/api/generate-notes", "/api/generate-from-repo",
     "/api/generate-from-text", "/api/github/generate-from-url"}

CallsTo(svc) == {i \in 1..Len(calls) : calls[i].svc = svc}

\* Some call of this request to the generation backend failed.
GenerationFailed == \E i \in CallsTo("ai") : calls[i].outcome.kind # "ok"

\* C1: on a generation entry point, a failed call to the generation backend
\* ends the request with a failure result (success: false) that carries the
\* backend failure's error text, never with a success result.
C1_GenerationFailureSurfaced ==
    (pc = "done" /\ req.endpoint \in GenerationEndpoints) =>
        \A i \in CallsTo("ai") :
            calls[i].outcome.kind # "ok" =>
                /\ ~resp.body.success
                /\ resp.status # 200
                /\ resp.body.error = generate_changelog(calls[i].arg, calls[i].outcome).error

\* An empty commit list reached the orchestrator: the posted 'commits' is
\* empty or missing, or the adapter's backend delivered zero commits.
EmptyCommitList ==
    \/ /\ Done("/api/generate-notes")
       /\ ~req.data.null
       /\ (~req.data.commits.present \/ Len(req.data.commits.value) = 0)
    \/ /\ Done("/api/generate-from-repo")
       /\ \E i \in CallsTo("git") :
              calls[i].outcome.kind = "ok" /\ Len(calls[i].outcome.commits) = 0
    \/ /\ Done("/api/github/generate-from-url")
       /\ \E i \in CallsTo("github") :
              calls[i].outcome.kind = "ok" /\ Len(calls[i].outcome.commits) = 0

\* C2: an empty commit list reaching the orchestrator yields a validation
\* failure (success: false, status 400) and the generation backend is never
\* called in that request.
C2_EmptyCommitsRejected ==
    EmptyCommitList =>
        /\ resp.status = 400
        /\ ~resp.body.success
        /\ CallsTo("ai") = {}

C2_Witness ==
    /\ Done("/api/github/generate-from-url")
    /\ EmptyCommitList
    /\ resp.status = 400
    /\ Len(calls) = 1

\* Some call of this request to a collaborator (git, GitHub, generation
\* backend) failed.
BackendFailed == \E i \in 1..Len(calls) : calls[i].outcome.kind # "ok"

\* C3: a failure response has status 500 when a backend failed and status
\* 400 only for input-validation failures; no backend failure is reported
\* as 400 or as 200.
C3_StatusClassification ==
    pc = "done" =>
        /\ (BackendFailed /\ ~resp.body.success) => resp.status = 500
        /\ BackendFailed => resp.status \notin {200, 400}

\* C4: whatever the request body and whichever collaborator fails, the
\* handler returns the uniform failure result (success: false, error:
\* <message>); no failure escapes the entry point in another shape.
C4_UniformFailureResult ==
    (pc = "done" /\ (BackendFailed \/ req.data.null)) =>
        /\ ~resp.body.success
        /\ "error" \in DOMAIN resp.body
        /\ resp.body.error # <<>>

\* The pasted text of a request to /api/generate-from-text that carries one.
PastedText == Get(req.data.git_log_text, <<>>)

TextRequest ==
    /\ Done("/api/generate-from-text")
    /\ ~req.data.null
    /\ PastedText # None

IsBlank(line) == \A i \in 1..Len(line) : line[i] \in Whitespace

\* The positions (1-based) of the non-blank lines of the text, in order.
NonBlankPositions(text) ==
    LET lines == Split(text, "\n")
        Pos[n \in 0..Len(lines)] ==
            IF n = 0 THEN <<>>
            ELSE IF IsBlank(lines[n]) THEN Pos[n - 1] ELSE Append(Pos[n - 1], n)
    IN  Pos[Len(lines)]

\* The line at position p of the text, without its surrounding whitespace.
TrimmedLine(text, p) ==
    LET line == Split(text, "\n")[p]
        first == CHOOSE i \in 1..Len(line) :
                     line[i] \notin Whitespace /\ \A j \in 1..(i - 1) : line[j] \in Whitespace
        last == CHOOSE i \in 1..Len(line) :
                    line[i] \notin Whitespace /\ \A j \in (i + 1)..Len(line) : line[j] \in Whitespace
    IN  SubSeq(line, first, last)

HasWhitespace(line) == \E i \in 1..Len(line) : line[i] \in Whitespace

\* C5: for a non-empty pasted text the adapter produces exactly as many
\* Commit Records as the text has non-blank lines, in the order of the lines.
C5_OneRecordPerNonBlankLine ==
    (TextRequest /\ ~IsBlank(PastedText)) =>
        LET pos == NonBlankPositions(PastedText)
        IN  /\ Len(records) = Len(pos)
            /\ \A k \in 1..Len(pos) :
                   LET line == TrimmedLine(PastedText, pos[k])
                   IN  \/ records[k].message = line
                       \/ records[k].hash \o <<" ">> \o records[k].message = line

C5_Witness ==
    /\ TextRequest
    /\ PastedText = <<"b", "\n", "\n", "a">>
    /\ Len(records) = 2
    /\ records[1].message = <<"b">>
    /\ records[2].message = <<"a">>

CommitHash(n) == <<"c", "o", "m", "m", "i", "t", "-">> \o Str(n)

\* C6 as stated: a line without a whitespace separator yields a record whose
\* message is the line and whose hash is commit-<position of the line in the
\* input> (0-based).
C6_HashIsInputPosition ==
    (TextRequest /\ ~IsBlank(PastedText)) =>
        LET pos == NonBlankPositions(PastedText)
        IN  \A k \in 1..Len(pos) :
                LET line == TrimmedLine(PastedText, pos[k])
                IN  (k <= Len(records) /\ ~HasWhitespace(line)) =>
                        /\ records[k].message = line
                        /\ records[k].hash = CommitHash(pos[k] - 1)

\* C6 as amended: a line without whitespace inside it yields a record whose
\* message is the line without its surrounding whitespace and whose hash is
\* commit-<k>, k being the 0-based position of the line counted from the first
\* non-blank line of the text (the blank lines before it do not count, the
\* blank lines after it do).
C6_HashIsPositionFromFirstLine ==
    (TextRequest /\ ~IsBlank(PastedText)) =>
        LET pos == NonBlankPositions(PastedText)
        IN  \A k \in 1..Len(pos) :
                LET line == TrimmedLine(PastedText, pos[k])
                IN  (k <= Len(records) /\ ~HasWhitespace(line)) =>
                        /\ records[k].message = line
                        /\ records[k].hash = CommitHash(pos[k] - pos[1])

C6_Witness ==
    /\ TextRequest
    /\ PastedText = <<"\n", "b", "\n", "a">>
    /\ Len(records) = 2
    /\ records[1].hash = CommitHash(0)
    /\ records[2].hash = CommitHash(1)
    /\ records[2].message = <<"a">>

\* C7: a non-blank line that contains whitespace is split on its first
\* whitespace run: the hash is the text before the run, the message the text
\* after the whole run, so the message has no leading or trailing whitespace.
C7_SplitOnFirstWhitespaceRun ==
    (TextRequest /\ ~IsBlank(PastedText)) =>
        LET pos == NonBlankPositions(PastedText)
        IN  \A k \in 1..Len(pos) :
                LET line == TrimmedLine(PastedText, pos[k])
                    i == CHOOSE n \in 1..Len(line) :
                             line[n] \in Whitespace /\ \A j \in 1..(n - 1) : line[j] \notin Whitespace
                    m == CHOOSE n \in (i + 1)..Len(line) :
                             line[n] \notin Whitespace /\ \A j \in i..(n - 1) : line[j] \in Whitespace
                IN  (k <= Len(records) /\ HasWhitespace(line)) =>
                        /\ records[k].hash = SubSeq(line, 1, i - 1)
                        /\ records[k].message = SubSeq(line, m, Len(line))
                        /\ records[k].message[1] \notin Whitespace

AdapterEndpoints ==
    {"/api/fetch-commits", "/api/generate-from-repo", "/api/generate-from-text",
     "/api/github/commits", "/api/github/generate-from-url"}

\* C8: every Commit Record a source adapter produced has a non-empty
\* message, whatever the source delivered.
C8_MessageNeverEmpty ==
    (pc = "done" /\ req.endpoint \in AdapterEndpoints) =>
        \A k \in 1..Len(records) :
            records[k].message \notin {<<>>, None, Absent}

\* C9: the pasted-text adapter yields no record only for an empty or
\* whitespace-only text, that text is answered with a validation failure
\* (status 400), and the 'Could not parse any commits' answer is never given.
C9_EmptyOnlyForBlankText ==
    TextRequest =>
        /\ IsBlank(PastedText) =>
               /\ resp.status = 400
               /\ ~resp.body.success
               /\ resp.body.error = <<"No git log text provided">>
               /\ calls = <<>>
        /\ ~IsBlank(PastedText) => Len(records) > 0
        /\ ~resp.body.success =>
               resp.body.error # <<"Could not parse any commits from the provided text">>

C9_Witness ==
    /\ TextRequest
    /\ PastedText = <<" ", "\n", "\t">>
    /\ resp.status = 400
    /\ records = <<>>

\* The commits the GitHub API delivered to this request, if it was called
\* and answered successfully.
GitHubDelivered ==
    IF \E i \in CallsTo("github") : calls[i].outcome.kind = "ok"
    THEN calls[CHOOSE i \in CallsTo("github") : calls[i].outcome.kind = "ok"].outcome.commits
    ELSE <<>>

HasLogin(c) == ~c.author.null /\ c.author.login \notin {None, Absent, <<>>}
HasAuthorName(c) ==
    c.commit.author.state = "dict" /\ c.commit.author.name \notin {None, Absent, <<>>}
HasCommitterName(c) ==
    ~c.commit.committer.null /\ c.commit.committer.name \notin {None, Absent, <<>>}

GitHubCalled == CallsTo("github") # {}
GitHubCall == calls[CHOOSE i \in CallsTo("github") : TRUE]

GitHubEndpoints == {"/api/github/commits", "/api/github/generate-from-url"}

Unresolvable(c) == ~HasLogin(c) /\ ~HasAuthorName(c) /\ ~HasCommitterName(c)

\* C11: when the GitHub API answers successfully, the fetch succeeds with one
\* Commit Record per delivered commit, and every commit with no resolvable
\* author at any tier (author null or without login, commit.author null or
\* without name, commit.committer null or without name) has the author
\* "Unknown".
C11_UnknownAuthorFallback ==
    (pc = "done" /\ req.endpoint = "/api/github/commits" /\ GitHubCalled
                 /\ GitHubCall.outcome.kind = "ok") =>
        /\ resp.status = 200
        /\ Len(records) = Len(GitHubCall.outcome.commits)
        /\ \A k \in 1..Len(records) :
               Unresolvable(GitHubCall.outcome.commits[k]) =>
                   records[k].author = <<"Unknown">>

NotFoundError == <<"Repository not found or you don't have access">>
ForbiddenError == <<"Access forbidden. Check your permissions.">>
GenericErrorPrefix == <<"GitHub API error: ">>

\* C12: an error status of the GitHub API gives one of three distinguishable
\* failure results and no commits: 404 the not-found error, 403 the forbidden
\* error, every other error status the generic GitHub API error.
C12_HttpErrorMapping ==
    (pc = "done" /\ req.endpoint \in GitHubEndpoints /\ GitHubCalled
                 /\ GitHubCall.outcome.kind = "HTTPError") =>
        LET status == GitHubCall.outcome.status
            error == resp.body.error
        IN  /\ resp.body.success = FALSE
            /\ "commits" \notin DOMAIN resp.body
            /\ records = <<>>
            /\ (status = 404) <=> (error = NotFoundError)
            /\ (status = 403) <=> (error = ForbiddenError)
            /\ (status \notin {403, 404}) <=>
                   (Len(error) > 0 /\ SubSeq(error, 1, 1) = GenericErrorPrefix)

C12_Witness ==
    /\ Done("/api/github/commits")
    /\ GitHubCalled
    /\ GitHubCall.outcome.kind = "HTTPError"
    /\ GitHubCall.outcome.status = 403
    /\ resp.status = 400
    /\ resp.body.error = ForbiddenError

\* The limit the request asked for: the "limit" of the body, or the default.
RequestedLimit == IF req.data.limit.present THEN req.data.limit.value
                  ELSE DefaultGitHubLimit

\* C13: fetch_repo_commits sends exactly one request, with the page size
\* min(limit, 100) and no page number, and returns no record beyond the
\* commits of that one response; the page size never exceeds 100.
C13_SinglePageRequest ==
    (pc = "done" /\ req.endpoint \in GitHubEndpoints /\ GitHubCalled) =>
        /\ Cardinality(CallsTo("github")) = 1
        /\ DOMAIN GitHubCall.arg.params = {"per_page", "since", "until"}
        /\ GitHubCall.arg.params.per_page =
               (IF RequestedLimit < PerPageCap THEN RequestedLimit ELSE PerPageCap)
        /\ GitHubCall.arg.params.per_page <= 100
        /\ Len(records) <= Len(GitHubCall.outcome.commits)

C13_Witness ==
    /\ Done("/api/github/commits")
    /\ RequestedLimit = 150
    /\ GitHubCalled
    /\ GitHubCall.arg.params.per_page = 100
    /\ Len(records) = 1

\* The URL of a parse request that reached the parser.
ParsedUrl == req.data.url
UrlParsed == Done("/api/github/parse-url") /\ ~req.data.null /\ Truthy(req.data.url)

\* A URL of one of the documented forms read back: the optional trailing
\* slash, the optional ".git" suffix and the prefix are taken off, and the
\* rest is <owner>/<repo>.
WithoutSlash(u) == IF EndsWith(u, <<"/">>) THEN SubSeq(u, 1, Len(u) - 1) ELSE u
WithoutDotGit(u) == IF EndsWith(u, DotGit) THEN SubSeq(u, 1, Len(u) - 4) ELSE u
FormPrefix(u) == CHOOSE prefix \in UrlPrefixes : StartsWith(u, prefix)
FormNames(u) ==
    LET core == WithoutDotGit(WithoutSlash(u))
    IN  Split(SubSeq(core, Len(FormPrefix(u)) + 1, Len(core)), "/")
IsFormUrl(u) ==
    /\ \E prefix \in UrlPrefixes : StartsWith(u, prefix)
    /\ Len(FormNames(u)) = 2
    /\ FormNames(u)[1] \in OwnerNames
    /\ FormNames(u)[2] \in RepoNames

\* C14: parse_github_url applied to https://github.com/<owner>/<repo>,
\* github.com/<owner>/<repo> or git@github.com:<owner>/<repo>, with or without
\* a ".git" suffix and a trailing slash, returns exactly (owner, repo).
C14_DocumentedFormsParsed ==
    (UrlParsed /\ IsFormUrl(ParsedUrl)) =>
        /\ resp.status = 200
        /\ resp.body.owner = FormNames(ParsedUrl)[1]
        /\ resp.body.repo = FormNames(ParsedUrl)[2]

\* C15: parse_github_url returns nothing for a URL without the github.com
\* marker and for a URL without two path segments after it; when it returns
\* a result, the URL contained the marker followed by an owner segment and a
\* repository segment.
C15_ResultOnlyForOwnerAndRepo ==
    UrlParsed =>
        /\ ~Contains(ParsedUrl, GithubCom) => resp.status = 400
        /\ resp.status = 200 =>
               /\ Contains(ParsedUrl, GithubCom)
               /\ resp.body.owner # <<>>
               /\ resp.body.repo # <<>>

\* The user message of the generation call this request made, if it made one.
GenerationCalled == CallsTo("ai") # {}
UserMessage == calls[CHOOSE i \in CallsTo("ai") : TRUE].arg

\* '- <message> - by <author> (<timestamp>)' of one Commit Record.
Entry(r) ==
    <<"- ">> \o r.message \o <<" - by ">>
        \o (IF r.author = Absent THEN <<"Unknown">> ELSE r.author)
        \o <<" (">> \o r.date \o <<")">>

IsRangeHeader(line) ==
    /\ Len(line) >= 5
    /\ line[1] = "Commits from "
    /\ line[Len(line)] = ":"
    /\ \E k \in 2..(Len(line) - 1) : line[k] = " to "

SingleLine(r) == ~Contains(Entry(r), <<"\n">>)

Displayed == printed # <<>>
Saved == markdown # <<>>

Level2 == <<"#", "#">>
Level3 == <<"#", "#", "#">>

InputEntries == ParseEntries(cli.changelog, Level2)

\* The entries of a sequence that are items, and those before the first
\* section header.
RECURSIVE ItemsOf(_)
ItemsOf(entries) ==
    IF entries = <<>> THEN <<>>
    ELSE (IF Head(entries).kind = "item" THEN <<Head(entries)>> ELSE <<>>)
             \o ItemsOf(Tail(entries))

SectionsOf(entries) == {k \in 1..Len(entries) : entries[k].kind = "section"}

HasOrphanItem(entries) ==
    \E k \in 1..Len(entries) :
        /\ entries[k].kind = "item"
        /\ \A j \in 1..k : entries[j].kind = "item"

\* The calls of display_changelog_terminal that print an item and a section
\* header.
IsItemPrint(p) == Len(p) > 0 /\ p[1] = "  [white]"
IsHeaderPrint(p) == Len(p) > 1 /\ p[1] = "\n" /\ p[2] = "[bold "

\* C17: an item line before the first '## ' header is dropped by both
\* renderers: the terminal prints no item before the first section header,
\* and the markdown text holds no item before its first section heading.
C17_OrphanItemsDropped ==
    /\ Displayed =>
           ~\E k \in 1..Len(printed) :
               /\ IsItemPrint(printed[k])
               /\ \A j \in 1..k : ~IsHeaderPrint(printed[j])
    /\ Saved => ~HasOrphanItem(ParseEntries(markdown, Level3))

UpperNames(entries) ==
    [k \in 1..Len(entries) |->
        IF entries[k].kind = "section"
        THEN [kind |-> "section", text |-> Upper(entries[k].text)]
        ELSE entries[k]]

\* C18 as stated: for every changelog text, the markdown output re-parsed
\* with '###' as the section marker gives the same items under the same
\* sections as the input, the section names upper-cased.
C18_RoundTrip ==
    Saved => ParseEntries(markdown, Level3) = UpperNames(InputEntries)

\* A section name that is not empty and does not end in whitespace.
PlainName(name) == name # <<>> /\ name[Len(name)] \notin Whitespace

PlainSections(entries) == \A k \in SectionsOf(entries) : PlainName(entries[k].text)

\* C18 amended: the markdown output re-parsed with '###' as the section
\* marker gives the same items in the same order for every changelog text,
\* and the same items under the same upper-cased sections when every
\* section name of the input is non-empty and does not end in whitespace.
C18_RoundTripOfPlainSections ==
    Saved =>
        /\ ItemsOf(ParseEntries(markdown, Level3)) = ItemsOf(InputEntries)
        /\ PlainSections(InputEntries) =>
               ParseEntries(markdown, Level3) = UpperNames(InputEntries)

C18_Witness ==
    /\ Saved
    /\ Len(InputEntries) = 3
    /\ InputEntries[1] = [kind |-> "section", text |-> <<"F", "i", "x", "e", "s">>]
    /\ InputEntries[2].kind = "item"
    /\ InputEntries[3] = [kind |-> "section", text |-> <<"b">>]
    /\ ParseEntries(markdown, Level3)[1].text = <<"F", "I", "X", "E", "S">>
    /\ ParseEntries(markdown, Level3)[3].text = <<"B">>

\* A well-formed changelog text: it starts with a section header, and every
\* line that is not blank is a header with a plain name or an item.
WellFormed(text) ==
    LET lines == Split(Strip(text), "\n")
        entries == ParseEntries(text, Level2)
    IN  /\ entries # <<>>
        /\ entries[1].kind = "section"
        /\ PlainSections(entries)
        /\ \A k \in 1..Len(lines) :
               Strip(lines[k]) # <<>> => ParseEntry(lines[k], Level2) # <<>>

\* C19 as stated: for a well-formed changelog text, the markdown output
\* parsed by the same parser (sections at '## ', items at '- ') has the
\* section/item structure of the first parse.
C19_ReparseIdempotent ==
    (Saved /\ WellFormed(cli.changelog)) =>
        ParseEntries(markdown, Level2) = UpperNames(InputEntries)

\* C19 amended: for a well-formed changelog text, the markdown output parsed
\* by the same parser gives the items of the first parse in order and no
\* section; parsed with '### ' as the section marker it gives the structure
\* of the first parse.
C19_ReparseKeepsItemsOnly ==
    (Saved /\ WellFormed(cli.changelog)) =>
        /\ ParseEntries(markdown, Level2) = ItemsOf(InputEntries)
        /\ ParseEntries(markdown, Level3) = UpperNames(InputEntries)

C19_Witness ==
    /\ Saved
    /\ WellFormed(cli.changelog)
    /\ Len(InputEntries) = 2
    /\ InputEntries[1].kind = "section"
    /\ InputEntries[2].kind = "item"
    /\ ParseEntries(markdown, Level2) = <<InputEntries[2]>>

\* C20: a run of the client that has ended has removed the temporary
\* directory clone_repo created, whatever the exit path (stated for the runs
\* without --keep-temp).
C20_TempDirRemoved ==
    (cli.pc = "exited" /\ ~cli.args.keep_temp) => temp_dir # "present"

\* How a run of the client ended, read from what it did.
Exited == cli.pc = "exited"

Interrupted == cli.exit_code = 130

NoUrlGiven == ~Truthy(cli.git_url)

CloneFailed ==
    \E i \in CallsTo("git clone") :
        calls[i].outcome # [kind |-> "completed", returncode |-> 0]

LogFailed == \E i \in CallsTo("git log") : calls[i].outcome.returncode # 0

PostFailed ==
    \E i \in CallsTo("backend") :
        ~(calls[i].outcome.kind = "response" /\ calls[i].outcome.status = 200
          /\ calls[i].outcome.success)

\* C21: a run of the client ends with exit code 1 when the clone failed, the
\* log could not be fetched, the backend was unreachable or answered without
\* success, and with exit code 0 otherwise (stated for the runs the user did
\* not interrupt, with a missing URL and a missing git executable counted
\* among the failures).
C21_ExitCodes ==
    (Exited /\ ~Interrupted) =>
        cli.exit_code = IF NoUrlGiven \/ CloneFailed \/ LogFailed \/ PostFailed
                        THEN 1 ELSE 0

\* C22: the commit limit handed to git clone and to git log is an integer of
\* 1..100, from the -n argument as from the prompt.
C22_LimitInRange ==
    /\ \A i \in CallsTo("git clone") : calls[i].arg.depth \in 1..100
    /\ \A i \in CallsTo("git log") : calls[i].arg.limit \in 1..100

\* The external collaborators a pipeline invocation can call: the generation
\* backend, the repository or GitHub API of the server's adapters, and for
\* the client git clone (network), git log (filesystem) and the server.
Collaborators == {"ai", "git", "github", "git clone", "git log", "backend"}

FromUrl == Done("/api/github/generate-from-url")

\* The request passed the validation and the parse stage of the handler.
FromUrlInputsValid ==
    /\ ~req.data.null
    /\ Truthy(Get(req.data.access_token, None))
    /\ Truthy(Get(req.data.repo_url, None))
    /\ github_parse_url(req.data.repo_url).ok

\* The GitHub API answered and delivered at least one commit.
FetchDelivered ==
    \E i \in CallsTo("github") :
        /\ calls[i].outcome.kind = "ok"
        /\ Len(calls[i].outcome.commits) >= 1
        /\ \A j \in CallsTo("ai") : i < j

\* C24: on /api/github/generate-from-url the GitHub API is called only for a
\* request with an access token and a URL that parses, and the generation
\* backend is called only after a GitHub call that succeeded and delivered at
\* least one commit.
C24_StagesInOrder ==
    FromUrl =>
        /\ GitHubCalled => FromUrlInputsValid
        /\ GenerationCalled => (FromUrlInputsValid /\ FetchDelivered)

C24_Witness ==
    /\ FromUrl
    /\ GenerationCalled
    /\ FetchDelivered
    /\ resp.status = 200

\* The lines of the changelog text as the renderers see them.
InputLines ==
    LET lines == Split(Strip(cli.changelog), "\n")
    IN  [k \in 1..Len(lines) |-> Strip(lines[k])]

IsHeaderLine(line) == StartsWith(line, HeaderMarker)

IsItemLine(line) == ~IsHeaderLine(line) /\ StartsWith(line, ItemMarker)

\* The category name of a header line as the specification words it: the
\* text after the leading '## ', stripped, without the trailing colon.
DocumentedName(line) ==
    RStripColon(Strip(SubSeq(line, Len(HeaderMarker) + 1, Len(line))))

DocumentedNames ==
    LET headers == SelectSeq(InputLines, IsHeaderLine)
    IN  [k \in 1..Len(headers) |-> Upper(DocumentedName(headers[k]))]

\* The names between '*** ' and ' ***' of the headers printed.
PrintedNames ==
    LET headers == SelectSeq(printed, IsHeaderPrint)
    IN  [k \in 1..Len(headers) |-> SubSeq(headers[k], 5, Len(headers[k]) - 4)]

IsHeadingLine(line) == StartsWith(line, Level3 \o <<" ">>)

\* The names after '### ' of the headings written.
SavedNames ==
    LET headings == SelectSeq(Split(markdown, "\n"), IsHeadingLine)
    IN  [k \in 1..Len(headings) |-> SubSeq(headings[k], 5, Len(headings[k]))]

\* C25: for every line beginning with '## ' both renderers emit, upper-cased,
\* exactly the text between the marker and a trailing colon, stripped, with
\* every other character of it kept.
C25_CategoryNames ==
    /\ Displayed => PrintedNames = DocumentedNames
    /\ Saved => SavedNames = DocumentedNames

\* The items of the text: what follows '- ', stripped.
InputItems ==
    LET items == SelectSeq(InputLines, IsItemLine)
    IN  [k \in 1..Len(items) |-> Strip(SubSeq(items[k], 3, Len(items[k])))]

HasTrailingGroup(item) ==
    item # <<>> /\ item[Len(item)] = ")" /\ Contains(item, <<"(">>)

ItemPrints == {i \in 1..Len(printed) : IsItemPrint(printed[i])}

\* The k-th item printed.
ItemPrint(k) ==
    printed[CHOOSE i \in ItemPrints : Cardinality({j \in ItemPrints : j <= i}) = k]

HighlightAt(p) == {i \in 1..Len(p) : p[i] = " [bold yellow]"}

IsSplitPrint(p) == HighlightAt(p) # {}

\* The highlighted segment of a split item.
Highlighted(p) ==
    LET i == CHOOSE i \in HighlightAt(p) : TRUE IN SubSeq(p, i + 1, Len(p) - 1)

\* C26: the terminal renderer splits an item into main text and highlighted
\* segment exactly when the item ends with a parenthesized group, the
\* highlighted segment then runs from a '(' to the final ')' of the item, and
\* every item printed is followed by one blank line.
C26_TrailingGroupHighlighted ==
    Displayed =>
        /\ Cardinality(ItemPrints) = Len(InputItems)
        /\ \A k \in 1..Len(InputItems) :
               LET p == ItemPrint(k)
               IN  /\ IsSplitPrint(p) <=> HasTrailingGroup(InputItems[k])
                   /\ IsSplitPrint(p) =>
                          /\ Head(Highlighted(p)) = "("
                          /\ Highlighted(p)[Len(Highlighted(p))] = ")"
        /\ \A i \in ItemPrints : i < Len(printed) /\ printed[i + 1] = <<>>

\* s without its blanks: the terminal prints the two segments of a split
\* item with one blank between them, whatever stood there.
RECURSIVE NoBlanks(_)
NoBlanks(s) ==
    IF s = <<>> THEN s
    ELSE IF Head(s) = " " THEN NoBlanks(Tail(s))
    ELSE <<Head(s)>> \o NoBlanks(Tail(s))

\* The text of a printed string without the markup literals of the program.
RECURSIVE PlainText(_)
PlainText(p) ==
    IF p = <<>> THEN p
    ELSE IF Len(Head(p)) = 1 THEN <<Head(p)>> \o PlainText(Tail(p))
    ELSE PlainText(Tail(p))

IsEntryPrint(p) == IsHeaderPrint(p) \/ IsItemPrint(p)

\* The section headers and items the terminal renderer printed, in order.
TerminalEntries ==
    LET entries == SelectSeq(printed, IsEntryPrint)
    IN  [k \in 1..Len(entries) |->
            IF IsHeaderPrint(entries[k])
            THEN [kind |-> "section",
                  text |-> SubSeq(entries[k], 5, Len(entries[k]) - 4)]
            ELSE [kind |-> "item", text |-> NoBlanks(PlainText(entries[k]))]]

IsEntryLine(line) == IsHeadingLine(line) \/ StartsWith(line, ItemMarker)

\* The section headings and items the markdown renderer wrote, in order.
MarkdownEntries ==
    LET entries == SelectSeq(Split(markdown, "\n"), IsEntryLine)
    IN  [k \in 1..Len(entries) |->
            IF IsHeadingLine(entries[k])
            THEN [kind |-> "section", text |-> SubSeq(entries[k], 5, Len(entries[k]))]
            ELSE [kind |-> "item",
                  text |-> NoBlanks(SubSeq(entries[k], 3, Len(entries[k])))]]

\* C27: for every changelog text the terminal renderer and the markdown
\* renderer emit the same sequence of section headers and items: the same
\* kinds in the same order, the same upper-cased section names and the same
\* item texts.
C27_RenderersAgree ==
    (Displayed /\ Saved) => TerminalEntries = MarkdownEntries

C27_Witness ==
    /\ Displayed
    /\ Saved
    /\ Len(TerminalEntries) = 3
    /\ TerminalEntries[1].kind = "section"
    /\ TerminalEntries[2].kind = "item"
    /\ TerminalEntries[3].kind = "section"
    /\ Len(InputLines) = 3

\* The payload carries an error message.
HasError(body) == "error" \in DOMAIN body /\ Truthy(body.error)

\* C28: every response of an endpoint under /api has status 200 exactly when
\* its payload has success: true, and a payload with success: false comes
\* with status 400 or 500 and carries an error message.
C28_StatusMatchesSuccess ==
    pc = "done" =>
        /\ resp.status = 200 <=> resp.body.success
        /\ ~resp.body.success => (resp.status \in {400, 500} /\ HasError(resp.body))

C28_Witness ==
    /\ Done("/api/github/auth")
    /\ Len(calls) = 2
    /\ calls[2].outcome.kind # "ok"
    /\ resp.status = 400
    /\ ~resp.body.success

====
